---------------------------- MODULE Spec2Model ----------------------------
(***************************************************************************)
(* Model of the conversation-memory and resilient-request subsystem of     *)
(* pdf-scholar: withRetry / shouldRetry (src/lib/utils/retry.ts), the      *)
(* token-budgeted truncation of src/lib/memory.ts and the chat route       *)
(* (POST /api/chat) with its session store.                                *)
(***************************************************************************)
EXTENDS Integers, Sequences, FiniteSets, TLC

VARIABLES
    \* ---- one call of withRetry (src/lib/utils/retry.ts:8-44)
    pc,            \* position of the call: idle, loop, awaitFn, sleep, resolved, rejected
    maxAttempts,   \* options.maxAttempts
    initialDelay,  \* options.initialDelay
    maxDelay,      \* options.maxDelay
    onRetry,       \* which hook was passed: none, log, guard, raise
    attempt,       \* the loop variable
    lastError,     \* let lastError
    fnCalls,       \* how many times fn() has been invoked
    inFlight,      \* invocations of fn() that have not settled yet
    hookLog,       \* the (attempt, error) pairs onRetry was called with
    waitLog,       \* the delays handed to setTimeout, in order
    timers,        \* setTimeout timers started and not yet fired
    elapsed,       \* timers that have fired
    outcome,       \* how the promise returned by withRetry settled
    \* ---- one application of shouldRetry (src/lib/utils/retry.ts:46-73)
    cErr,          \* the failure handed to shouldRetry
    cVerdict,      \* what shouldRetry returned for it
    \* ---- one application of truncateConversation (src/lib/memory.ts:131-168)
    tMessages,     \* the message list handed in
    tMaxTokens,    \* maxTokens
    tBuffer,       \* bufferThreshold
    tMethod,       \* encodingMethod, the token counter in use
    tNow,          \* Date.now() at the call
    tResult,       \* the returned { messages, wasTruncated }
    \* ---- the server process of the chat route (POST /api/chat)
    env,           \* process.env as the modules read it when they load
    isDbAvailable, \* let isDbAvailable of the store module
    db,            \* the relational store: its sessions, messages, embeddings
    heap,          \* the message arrays that exist; an array is known by its index
    chatSessions,  \* const chatSessions: chat id -> array (0: no entry)
    clock,         \* what Date.now() returns
    counter,       \* let encodingMethod of the token counter
    calls,         \* how many calls of POST were received
    received,      \* the generation requests the model backend has received
    turns,         \* the calls of POST, each with its locals and its response
    \* ---- the browser: pages of the client (src/components/ChatInterface.tsx)
    wallClock,     \* what Date.now() returns in the browser
    localStorage,  \* the origin's localStorage, shared by its pages
    tabs,          \* the pages that show ChatInterface, each with its React state
    analyzeCalls,  \* the calls of handleAnalyze, each with its locals
    requests       \* the bodies of the POST requests the pages have sent

rvars == <<pc, maxAttempts, initialDelay, maxDelay, onRetry, attempt, lastError,
           fnCalls, inFlight, hookLog, waitLog, timers, elapsed, outcome>>
cvars == <<cErr, cVerdict>>
tvars == <<tMessages, tMaxTokens, tBuffer, tMethod, tNow, tResult>>
chvars == <<env, isDbAvailable, db, heap, chatSessions, clock, counter,
            calls, received, turns>>
clvars == <<wallClock, localStorage, tabs, analyzeCalls, requests>>
vars  == <<rvars, cvars, tvars, chvars, clvars>>

(***************************************************************************)
(* Bounds of the model.                                                    *)
(***************************************************************************)
MaxAttemptsBound == 3      \* largest maxAttempts a call is started with
MaxLen == 3                \* longest message list handed to truncateConversation
MaxTurns == 2              \* calls of POST /api/chat in one behaviour
MaxInFlight == 1           \* calls of POST /api/chat in progress at a time
MaxSubmissions == 2        \* calls of handleAnalyze in one behaviour
MaxTabs == 2               \* pages of the client open on the origin
MaxTicks == 2              \* advances of the browser's clock in one behaviour
MaxStreamedCalls == 1      \* calls of handleAnalyze that read every kind of stream

Min(a, b) == IF a <= b THEN a ELSE b
Max(a, b) == IF a >= b THEN a ELSE b
Pow2(n) == 2 ^ n
\* Math.ceil(a / b) for a >= 0, b > 0
CeilDiv(a, b) == (a + b - 1) \div b

\* JavaScript's undefined
Undefined == [undefined |-> TRUE]
None == [kind |-> "pending"]

(***************************************************************************)
(* Failures.  A failure is a record that may carry name, message and       *)
(* status; a field that is absent reads as undefined.  A message is a      *)
(* sequence of text fragments and includes() looks for a fragment.         *)
(***************************************************************************)
Has(e, f) == f \in DOMAIN e
Includes(msg, needle) == \E i \in 1..Len(msg) : msg[i] = needle

NameIs(error, n) == Has(error, "name") /\ error.name = n
\* error.message?.includes(needle)
MessageIncludes(error, needle) ==
    Has(error, "message") /\ Includes(error.message, needle)

HTTP_RATE_LIMIT == 429
HTTP_UNAVAILABLE == 503
HTTP_CLIENT_MIN == 400
HTTP_SERVER_MIN == 500

\* shouldRetry without its last two rules (retry.ts:62-70): nothing but
\* timeouts, connection failures and 503 is retried.
shouldRetryNoServerErrors(error) ==
    IF NameIs(error, "AbortError") \/ NameIs(error, "TimeoutError") THEN TRUE
    ELSE IF MessageIncludes(error, "fetch failed")
            \/ MessageIncludes(error, "ECONNREFUSED") THEN TRUE
    ELSE IF Has(error, "status") /\ error.status = HTTP_UNAVAILABLE THEN TRUE
    ELSE FALSE

shouldRetry(error) ==
    IF NameIs(error, "AbortError") \/ NameIs(error, "TimeoutError") THEN TRUE
    ELSE IF MessageIncludes(error, "fetch failed")
            \/ MessageIncludes(error, "ECONNREFUSED") THEN TRUE
    ELSE IF Has(error, "status") /\ error.status = HTTP_UNAVAILABLE THEN TRUE
    ELSE IF Has(error, "status") /\ error.status >= HTTP_CLIENT_MIN
            /\ error.status < HTTP_SERVER_MIN
            /\ error.status # HTTP_RATE_LIMIT THEN FALSE
    ELSE IF Has(error, "status") /\ error.status >= HTTP_SERVER_MIN THEN TRUE
    ELSE FALSE

(***************************************************************************)
(* withRetry                                                               *)
(***************************************************************************)
\* The failures the operation may raise.  Each is tagged with the attempt
\* that raised it, so that failures of different attempts are different
\* values.
OpFailures(a) ==
    { [name |-> "TimeoutError", message |-> <<"The operation timed out">>, raisedAt |-> a],
      [name |-> "TypeError", message |-> <<"fetch failed">>, raisedAt |-> a],
      [name |-> "Error", message |-> <<"Not Found">>, status |-> 404, raisedAt |-> a],
      [name |-> "Error", message |-> <<"Too Many Requests">>, status |-> 429, raisedAt |-> a],
      [name |-> "Error", message |-> <<"boom">>, raisedAt |-> a] }

\* The error a hook of kind "raise" throws.
HookError == [name |-> "Error", message |-> <<"hook gave up">>, raisedAt |-> 0]

HookKinds == {"none", "log", "guard", "raise"}
InitialDelays == {500, 1000, 8000}
MaxDelays == {1000, 10000}

\* The backoff with a 0-indexed attempt: Math.pow(2, attempt).
BackoffDoubledEarly(d0, a, dmax) == Min(d0 * Pow2(a), dmax)
\* Math.min(initialDelay * Math.pow(2, attempt - 1), maxDelay)
Backoff(d0, a, dmax) == Min(d0 * Pow2(a - 1), dmax)

\* What calling onRetry(attempt, error) does: [called, throws, thrown].
\*   none  - no hook was passed (retry.ts:34)
\*   log   - the health probe's hook, which only logs (route.ts:194-196)
\*   guard - the generation call's hook: throw error unless shouldRetry(error)
\*           (route.ts:235-241)
\*   raise - a hook that throws an error of its own
\* HookSwallowed is the call wrapped in a try that drops what the hook throws.
HookSwallowed(hook, a, error) ==
    [called |-> hook # "none", throws |-> FALSE, thrown |-> Undefined]
HookCall(hook, a, error) ==
    CASE hook = "none"  -> [called |-> FALSE, throws |-> FALSE, thrown |-> Undefined]
      [] hook = "log"   -> [called |-> TRUE, throws |-> FALSE, thrown |-> Undefined]
      [] hook = "guard" -> [called |-> TRUE, throws |-> ~shouldRetry(error),
                            thrown |-> IF shouldRetry(error) THEN Undefined ELSE error]
      [] hook = "raise" -> [called |-> TRUE, throws |-> TRUE, thrown |-> HookError]

\* The error thrown at retry.ts:28 when the last attempt failed: the error
\* just caught.  ThrowLastFirstSeen throws what lastError held before it.
ThrowLastFirstSeen(error, last) == IF last = Undefined THEN error ELSE last
ThrownWhenExhausted(error, last) == error

\* Where control goes after the backoff timer was created (retry.ts:39): the
\* await suspends the loop until the timer fires.  Without the await the
\* loop goes on at once.
AfterTimerStartedNoAwait == "loop"
AfterTimerStarted == "sleep"

\* Where control goes when fn() resolves (retry.ts:23): return ends the
\* call.  AfterResolveKeepsLooping is the loop without the return.
AfterResolveKeepsLooping == "sleep"
AfterResolve == "resolved"

RIdle ==
    /\ pc = "idle"
    /\ maxAttempts = 0 /\ initialDelay = 0 /\ maxDelay = 0 /\ onRetry = "none"
    /\ attempt = 0 /\ lastError = Undefined
    /\ fnCalls = 0 /\ inFlight = 0
    /\ hookLog = <<>> /\ waitLog = <<>> /\ timers = 0 /\ elapsed = 0
    /\ outcome = None

\* NaN, what parseInt returns for a text that does not start with a number
\* (config/ollama.ts:20).  It is written as a value no attempt count takes;
\* every comparison with it is false (IsNaN is tested wherever it is read).
NaN == 0 - 2 ^ 30
IsNaN(x) == x = NaN
\* parseInt of the texts OLLAMA_RETRY_ATTEMPTS is set to.
parseInt(text) ==
    CASE text = "-1" -> 0 - 1
      [] text = "0" -> 0
      [] text = "1" -> 1
      [] text = "2" -> 2
      [] text = "3" -> 3
      [] OTHER -> NaN
AttemptTexts == {"-1", "0", "1", "2", "3", "", "three"}
\* config/ollama.ts:20: parseInt(process.env.OLLAMA_RETRY_ATTEMPTS || '1')
ConfiguredAttempts(text) == parseInt(IF text = "" THEN "1" ELSE text)

\* A loop that tests its condition after the body.
LoopConditionAfterBody(a, max) == a = 1 \/ (~IsNaN(max) /\ a <= max)
\* retry.ts:21: attempt <= maxAttempts
LoopCondition(a, max) == ~IsNaN(max) /\ a <= max

\* withRetry(fn, { maxAttempts, initialDelay, maxDelay, onRetry }) is called:
\* retry.ts:12-21 up to the first test of the loop condition.
Call(k, d0, dmax, hook) ==
    /\ pc = "idle"
    /\ pc' = "loop"
    /\ maxAttempts' = k /\ initialDelay' = d0 /\ maxDelay' = dmax /\ onRetry' = hook
    /\ attempt' = 1
    /\ UNCHANGED <<lastError, fnCalls, inFlight, hookLog, waitLog, timers, elapsed, outcome>>

\* retry.ts:21-23: the loop condition holds and fn() is invoked.
InvokeFn ==
    /\ pc = "loop"
    /\ LoopCondition(attempt, maxAttempts)
    /\ pc' = "awaitFn"
    /\ fnCalls' = fnCalls + 1
    /\ inFlight' = inFlight + 1
    /\ UNCHANGED <<maxAttempts, initialDelay, maxDelay, onRetry, attempt, lastError,
                   hookLog, waitLog, timers, elapsed, outcome>>

\* retry.ts:21,43: the loop condition fails and lastError is thrown.
LoopExhausted ==
    /\ pc = "loop"
    /\ ~LoopCondition(attempt, maxAttempts)
    /\ pc' = "rejected"
    /\ outcome' = [kind |-> "rejected", error |-> lastError, by |-> "loop"]
    /\ UNCHANGED <<maxAttempts, initialDelay, maxDelay, onRetry, attempt, lastError,
                   fnCalls, inFlight, hookLog, waitLog, timers, elapsed>>

\* retry.ts:23: fn() resolves and withRetry returns its value.
FnResolves ==
    /\ pc = "awaitFn"
    /\ inFlight' = inFlight - 1
    /\ pc' = AfterResolve
    /\ outcome' = [kind |-> "resolved", value |-> attempt]
    /\ timers' = IF AfterResolve = "sleep" THEN timers + 1 ELSE timers
    /\ UNCHANGED <<maxAttempts, initialDelay, maxDelay, onRetry, attempt, lastError,
                   fnCalls, hookLog, waitLog, elapsed>>

\* retry.ts:24-39: fn() rejects with error; the catch block runs up to the
\* throw or up to the await of the backoff timer.
FnRejects(error) ==
    /\ pc = "awaitFn"
    /\ inFlight' = inFlight - 1
    /\ lastError' = error
    /\ IF ~IsNaN(maxAttempts) /\ attempt = maxAttempts
       THEN /\ pc' = "rejected"
            /\ outcome' = [kind |-> "rejected",
                           error |-> ThrownWhenExhausted(error, lastError),
                           by |-> "fn"]
            /\ UNCHANGED <<hookLog, waitLog, timers>>
       ELSE LET delay == Backoff(initialDelay, attempt, maxDelay)
                h == HookCall(onRetry, attempt, error)
            IN /\ hookLog' = IF h.called THEN Append(hookLog, <<attempt, error>>)
                             ELSE hookLog
               /\ IF h.throws
                  THEN /\ pc' = "rejected"
                       /\ outcome' = [kind |-> "rejected", error |-> h.thrown,
                                      by |-> "hook"]
                       /\ UNCHANGED <<waitLog, timers>>
                  ELSE /\ pc' = AfterTimerStarted
                       /\ waitLog' = Append(waitLog, delay)
                       /\ timers' = timers + 1
                       /\ UNCHANGED outcome
    /\ UNCHANGED <<maxAttempts, initialDelay, maxDelay, onRetry, attempt, fnCalls, elapsed>>

\* retry.ts:39,21: the backoff timer fires, the await resumes and attempt++.
TimerFires ==
    /\ pc = "sleep"
    /\ timers > 0
    /\ timers' = timers - 1
    /\ elapsed' = elapsed + 1
    /\ attempt' = attempt + 1
    /\ pc' = "loop"
    /\ UNCHANGED <<maxAttempts, initialDelay, maxDelay, onRetry, lastError,
                   fnCalls, inFlight, hookLog, waitLog, outcome>>

(***************************************************************************)
(* Text.  A text is a sequence of runs of characters of one class:         *)
(*   "w" characters that are neither whitespace nor '#',                   *)
(*   "h" '#' characters, "s" blanks, "n" newlines.                         *)
(* Adjacent runs of a text have different classes.  Counting characters,   *)
(* splitting on whitespace or newlines, slicing and matching /^#+\s/ only  *)
(* depend on the classes.                                                  *)
(***************************************************************************)
Run(k, n) == [k |-> k, n |-> n]
W(n) == <<Run("w", n)>>
H(n) == <<Run("h", n)>>
S(n) == <<Run("s", n)>>
NL(n) == <<Run("n", n)>>
IsSpace(r) == r.k \in {"s", "n"}

\* text.length
RECURSIVE Chars(_)
Chars(t) ==
    IF Len(t) = 0 THEN 0
    ELSE IF Len(t) = 1 THEN t[1].n
    ELSE LET mid == Len(t) \div 2
         IN Chars(SubSeq(t, 1, mid)) + Chars(SubSeq(t, mid + 1, Len(t)))

\* text.split(/\s+/).length: one more than the number of maximal whitespace
\* stretches ("" splits into [""]).
WordCount(t) ==
    1 + Cardinality({i \in 1..Len(t) : IsSpace(t[i]) /\ (i = 1 \/ ~IsSpace(t[i-1]))})

\* text.slice(0, n)
RECURSIVE Slice(_, _)
Slice(t, n) ==
    IF Len(t) = 0 \/ n <= 0 THEN <<>>
    ELSE IF Head(t).n <= n THEN <<Head(t)>> \o Slice(Tail(t), n - Head(t).n)
    ELSE <<Run(Head(t).k, n)>>

\* a + b for texts (adjacent runs of one class are merged)
Concat(a, b) ==
    IF Len(a) = 0 THEN b
    ELSE IF Len(b) = 0 THEN a
    ELSE IF a[Len(a)].k = b[1].k
         THEN SubSeq(a, 1, Len(a) - 1) \o <<Run(b[1].k, a[Len(a)].n + b[1].n)>> \o Tail(b)
    ELSE a \o b

RECURSIVE ConcatAll(_)
ConcatAll(ts) == IF Len(ts) = 0 THEN <<>> ELSE Concat(Head(ts), ConcatAll(Tail(ts)))

\* parts.join(sep)
RECURSIVE Join(_, _)
Join(parts, sep) ==
    IF Len(parts) = 0 THEN <<>>
    ELSE IF Len(parts) = 1 THEN parts[1]
    ELSE LET mid == Len(parts) \div 2
         IN ConcatAll(<<Join(SubSeq(parts, 1, mid), sep), sep,
                        Join(SubSeq(parts, mid + 1, Len(parts)), sep)>>)

\* content.split('\n').filter(line => line.trim()): the stretches between
\* newlines that hold a character other than whitespace.
RECURSIVE SplitLines(_, _)
SplitLines(t, cur) ==
    IF Len(t) = 0 THEN <<cur>>
    ELSE IF Head(t).k = "n" THEN <<cur>> \o SplitLines(Tail(t), <<>>)
    ELSE SplitLines(Tail(t), cur \o <<Head(t)>>)

IsBlank(line) == \A i \in 1..Len(line) : IsSpace(line[i])
NonBlankLines(t) == SelectSeq(SplitLines(t, <<>>), LAMBDA line : ~IsBlank(line))

\* line.match(/^#+\s/)
IsHeading(line) == Len(line) >= 2 /\ line[1].k = "h" /\ line[2].k = "s"
\* h.replace(/^#+\s/, ''): the '#'s and one whitespace character go.
StripHeading(line) ==
    IF line[2].n = 1 THEN SubSeq(line, 3, Len(line))
    ELSE <<Run("s", line[2].n - 1)>> \o SubSeq(line, 3, Len(line))

\* String(n) for a page number
Digits(n) == IF n < 10 THEN W(1) ELSE IF n < 100 THEN W(2) ELSE W(3)
MapDigits(ns) == [i \in 1..Len(ns) |-> Digits(ns[i])]

CommaSpace == W(1) \o S(1)       \* ', '
Ellipsis == W(3)                 \* '...'

(***************************************************************************)
(* Token counting (src/lib/memory.ts:43-94)                                *)
(***************************************************************************)
IMAGE_TOKENS == 1000
MESSAGE_OVERHEAD == 4
SUMMARY_HEAD == 3        \* messages summarized
USER_EXCERPT == 100      \* characters of a user message kept
ASSISTANT_EXCERPT == 150 \* characters of an assistant message kept
MAX_HEADINGS == 3

\* The fallback of countTokens: Math.ceil(Math.max(words * 1.3, chars / 4)).
\* The ceiling of the larger equals the larger of the ceilings, and 1.3 * w
\* is 13 w / 10.
FallbackEstimate(text) ==
    Max(CeilDiv(13 * WordCount(text), 10), CeilDiv(Chars(text), 4))

\* tiktoken.encode(text).length / jsTiktoken.encode(text).length: the
\* tokenizer library, abstracted to a count that depends on the text only:
\* every stretch of non-blank characters costs one token per four characters
\* and every stretch of newlines one token.
RunTokens(r) ==
    CASE r.k = "s" -> 0
      [] r.k = "n" -> 1
      [] OTHER -> CeilDiv(r.n, 4)
RECURSIVE EncodeLength(_)
EncodeLength(t) ==
    IF Len(t) = 0 THEN 0
    ELSE IF Len(t) = 1 THEN RunTokens(t[1])
    ELSE LET mid == Len(t) \div 2
         IN EncodeLength(SubSeq(t, 1, mid)) + EncodeLength(SubSeq(t, mid + 1, Len(t)))

EncodingMethods == {"tiktoken", "js-tiktoken", "fallback"}

countTokens(text, encodingMethod) ==
    IF encodingMethod \in {"tiktoken", "js-tiktoken"} THEN EncodeLength(text)
    ELSE FallbackEstimate(text)

\* countMessageTokensRobust of src/lib/tokenCounter.ts:90-103, which budgets
\* 125 tokens for an image.
countMessageTokensRobust(message, encodingMethod) ==
    countTokens(message.content, encodingMethod)
    + (IF Has(message, "images") THEN Len(message.images) * 125 ELSE 0)
    + MESSAGE_OVERHEAD

countMessageTokens(message, encodingMethod) ==
    countTokens(message.content, encodingMethod)
    + (IF Has(message, "images") THEN Len(message.images) * IMAGE_TOKENS ELSE 0)
    + MESSAGE_OVERHEAD

RECURSIVE getTotalTokenCount(_, _)
getTotalTokenCount(messages, encodingMethod) ==
    IF Len(messages) = 0 THEN 0
    ELSE countMessageTokens(Head(messages), encodingMethod)
         + getTotalTokenCount(Tail(messages), encodingMethod)

(***************************************************************************)
(* Summaries (src/lib/memory.ts:96-129)                                    *)
(***************************************************************************)
SummaryHeader == ConcatAll(<<W(8), S(1), W(12), S(1), W(8), NL(1)>>)
    \* "Previous conversation summary:\n"
UserLinePrefix == ConcatAll(<<W(1), S(1), W(4), S(1), W(5), S(1), W(6), S(1)>>)
    \* "- User asked about: "
PagesPrefix == ConcatAll(<<S(2), W(7), S(1)>>)
    \* "  (Pages: "
AssistantLinePrefix == ConcatAll(<<W(1), S(1), W(9), S(1), W(10), S(1)>>)
    \* "- Assistant explained: "

extractKeyPoints(content) ==
    LET lines == NonBlankLines(content)
        headings == SelectSeq(lines, IsHeading)
    IN IF Len(headings) > 0
       THEN Join([i \in 1..Min(MAX_HEADINGS, Len(headings)) |-> StripHeading(headings[i])],
                 CommaSpace)
       ELSE Concat(Slice(content, ASSISTANT_EXCERPT), Ellipsis)

SummaryLine(msg) ==
    IF msg.role = "user"
    THEN ConcatAll(<<UserLinePrefix, Slice(msg.content, USER_EXCERPT), Ellipsis, NL(1),
                     IF Has(msg, "pageReferences")
                     THEN ConcatAll(<<PagesPrefix,
                                      Join(MapDigits(msg.pageReferences), CommaSpace),
                                      W(1), NL(1)>>)
                     ELSE <<>> >>)
    ELSE IF msg.role = "assistant"
    THEN ConcatAll(<<AssistantLinePrefix, extractKeyPoints(msg.content), NL(1)>>)
    ELSE <<>>

RECURSIVE SummaryLines(_)
SummaryLines(msgs) ==
    IF Len(msgs) = 0 THEN <<>>
    ELSE Concat(SummaryLine(Head(msgs)), SummaryLines(Tail(msgs)))

summarizeOldMessages(messages) ==
    LET toSummarize == SubSeq(messages, 1, Min(SUMMARY_HEAD, Len(messages)))
    IN Concat(SummaryHeader, SummaryLines(toSummarize))

(***************************************************************************)
(* truncateConversation (src/lib/memory.ts:131-168)                        *)
(***************************************************************************)
\* memory.ts:138: the list is returned untouched when this holds
\* (UnderBudgetStrict: the test with < for <=).
UnderBudgetStrict(totalTokens, bufferThreshold) == totalTokens < bufferThreshold
UnderBudget(totalTokens, bufferThreshold) == totalTokens <= bufferThreshold

\* memory.ts:159: the walk goes on while this holds (FitsAlone: the test
\* without the tokens counted so far; FitsStrict: the test with >= for >).
FitsStrict(currentTokens, messageTokens, maxTokens) ==
    ~(currentTokens + messageTokens >= maxTokens)
FitsAlone(currentTokens, messageTokens, maxTokens) == ~(messageTokens > maxTokens)
Fits(currentTokens, messageTokens, maxTokens) ==
    ~(currentTokens + messageTokens > maxTokens)

\* A walk that passes over a message that does not fit and goes on to the
\* older ones.
RECURSIVE KeepWalkSkipping(_, _, _, _, _, _)
KeepWalkSkipping(messages, i, truncatedMessages, currentTokens, maxTokens, encodingMethod) ==
    IF i < 1 THEN truncatedMessages
    ELSE LET message == messages[i]
             messageTokens == countMessageTokens(message, encodingMethod)
         IN IF ~Fits(currentTokens, messageTokens, maxTokens)
            THEN KeepWalkSkipping(messages, i - 1, truncatedMessages, currentTokens,
                                  maxTokens, encodingMethod)
            ELSE KeepWalkSkipping(messages, i - 1, <<message>> \o truncatedMessages,
                                  currentTokens + messageTokens, maxTokens,
                                  encodingMethod)

\* memory.ts:155-165: the walk from the newest message to the oldest;
\* unshift puts each kept message at the front of truncatedMessages.
RECURSIVE KeepWalk(_, _, _, _, _, _)
KeepWalk(messages, i, truncatedMessages, currentTokens, maxTokens, encodingMethod) ==
    IF i < 1 THEN truncatedMessages
    ELSE LET message == messages[i]
             messageTokens == countMessageTokens(message, encodingMethod)
         IN IF ~Fits(currentTokens, messageTokens, maxTokens)
            THEN truncatedMessages
            ELSE KeepWalk(messages, i - 1, <<message>> \o truncatedMessages,
                          currentTokens + messageTokens, maxTokens, encodingMethod)

SummaryMessage(messages, now) ==
    [id |-> <<"summary", now>>,
     role |-> "system",
     content |-> summarizeOldMessages(messages),
     timestamp |-> now]

truncateConversation(messages, maxTokens, bufferThreshold, encodingMethod, now) ==
    LET totalTokens == getTotalTokenCount(messages, encodingMethod)
    IN IF UnderBudget(totalTokens, bufferThreshold)
       THEN [messages |-> messages, wasTruncated |-> FALSE]
       ELSE LET summaryMessage == SummaryMessage(messages, now)
            IN [messages |-> KeepWalk(messages, Len(messages), <<summaryMessage>>,
                                      countMessageTokens(summaryMessage, encodingMethod),
                                      maxTokens, encodingMethod),
                wasTruncated |-> TRUE]

(***************************************************************************)
(* The chat route's process state (src/app/api/chat/mock/route.ts:69-76,   *)
(* the store module, src/lib/memory.ts:4-6).                               *)
(***************************************************************************)
\* r with field f set to v
WithField(r, f, v) == [x \in DOMAIN r \cup {f} |-> IF x = f THEN v ELSE r[x]]

\* process.env with nothing set: no DATABASE_URL, the default budgets, one
\* generation attempt, the default context length.
DefaultEnv ==
    [USE_DB |-> FALSE, MAX_TOKEN_MEMORY |-> 32768, TOKEN_BUFFER_THRESHOLD |-> 28672,
     OLLAMA_RETRY_ATTEMPTS |-> 1, OLLAMA_NUM_CONTEXT |-> 32768]

\* The environments considered: the default one, and ones with a small
\* memory budget, a store, two generation attempts, a longer context.
Envs ==
    { DefaultEnv,
      [USE_DB |-> FALSE, MAX_TOKEN_MEMORY |-> 60, TOKEN_BUFFER_THRESHOLD |-> 10,
       OLLAMA_RETRY_ATTEMPTS |-> 2, OLLAMA_NUM_CONTEXT |-> 65536],
      [USE_DB |-> TRUE, MAX_TOKEN_MEMORY |-> 60, TOKEN_BUFFER_THRESHOLD |-> 10,
       OLLAMA_RETRY_ATTEMPTS |-> 1, OLLAMA_NUM_CONTEXT |-> 32768] }

\* The handlers of POST that can be in progress; a handler that has ended
\* serves the next call.
Turns == 1..MaxInFlight
ChatIds == {"a", "b"}

\* A handler that has not received a call yet.
IdleTurn ==
    [pc |-> "idle", body |-> Undefined, messages |-> 0, newUserMessage |-> Undefined,
     userTokenCount |-> 0, assistantTokenCount |-> 0, page |-> 0, query |-> FALSE, tries |-> 0, error |-> Undefined, testResponse |-> Undefined,
     response |-> Undefined, assistantMsg |-> Undefined, probes |-> 0, sent |-> <<>>,
     events |-> <<>>, closed |-> FALSE, http |-> "none", failedAt |-> "none",
     seen |-> <<>>, seenMethod |-> "none", cancelled |-> FALSE, answer |-> Undefined]

\* The store before anything was written; startup is the connection test of
\* the store module, which has not settled yet.
EmptyDb ==
    [startup |-> "connecting", chat_sessions |-> {}, messages |-> <<>>,
     page_embeddings |-> {}]

ChStartWith(e, handlers) ==
    /\ env = e
    /\ isDbAvailable = FALSE
    /\ db = EmptyDb
    /\ heap = <<>>
    /\ chatSessions = [id \in ChatIds |-> 0]
    /\ clock = 1
    /\ counter = "fallback"
    /\ calls = 0
    /\ received = {}
    /\ turns = [t \in handlers |-> IdleTurn]

ChStart(e) == ChStartWith(e, Turns)

ChIdle == ChStart(DefaultEnv)

CIdle == cErr = Undefined /\ cVerdict = <<>>
\* The browser with no page open.
ClIdle ==
    /\ wallClock = 0
    /\ localStorage = <<>>
    /\ tabs = <<>>
    /\ analyzeCalls = <<>>
    /\ requests = <<>>
TIdle ==
    /\ tMessages = <<>> /\ tMaxTokens = 0 /\ tBuffer = 0 /\ tMethod = "fallback"
    /\ tNow = 0 /\ tResult = None

Init == RIdle /\ ClIdle /\ CIdle /\ TIdle /\ ChIdle

RNext ==
    \/ \E k \in (0..MaxAttemptsBound) \cup {ConfiguredAttempts(text) : text \in AttemptTexts},
          d0 \in InitialDelays, dmax \in MaxDelays,
          hook \in HookKinds : Call(k, d0, dmax, hook)
    \/ InvokeFn
    \/ LoopExhausted
    \/ FnResolves
    \/ \E error \in OpFailures(attempt) : FnRejects(error)
    \/ TimerFires

Next == RNext /\ UNCHANGED <<cvars, tvars, chvars, clvars>>

Spec == Init /\ [][Next]_vars

(***************************************************************************)
(* shouldRetry applied to one failure.                                     *)
(***************************************************************************)
FailureNames == {"AbortError", "TimeoutError", "TypeError", "Error"}
FailureMessages ==
    { <<"fetch failed">>,
      <<"connect ", "ECONNREFUSED", " 127.0.0.1:11434">>,
      <<"model not found">>,
      <<"boom">> }
FailureStatuses == {200, 399, 400, 404, 429, 499, 500, 502, 503, 599}

\* Every combination of a name, a message and a status, each of them present
\* or absent.
Failures ==
    LET AddField(errs, field, values) ==
            errs \cup {[f \in DOMAIN err \cup {field} |->
                          IF f = field THEN v ELSE err[f]] :
                       err \in errs, v \in values}
        Base == {[raisedAt |-> 1]}
    IN AddField(AddField(AddField(Base, "status", FailureStatuses),
                         "message", FailureMessages),
                "name", FailureNames)

CInit == cErr \in Failures /\ cVerdict = <<>>

\* shouldRetry(error) is evaluated.
Classify ==
    /\ cVerdict = <<>>
    /\ cVerdict' = <<shouldRetry(cErr)>>
    /\ UNCHANGED cErr

InitShouldRetry == RIdle /\ ClIdle /\ CInit /\ TIdle /\ ChIdle
NextShouldRetry == Classify /\ UNCHANGED <<rvars, tvars, chvars, clvars>>
SpecShouldRetry == InitShouldRetry /\ [][NextShouldRetry]_vars

(***************************************************************************)
(* truncateConversation applied to one message list.                       *)
(***************************************************************************)
\* n words of l letters each, separated by single blanks
RECURSIVE WordsOf(_, _)
WordsOf(n, l) ==
    IF n = 0 THEN <<>>
    ELSE IF n = 1 THEN W(l)
    ELSE W(l) \o S(1) \o WordsOf(n - 1, l)

\* "# xxxxx\nxxxx xxxx\n## xxxxxxx\nxxxx"
HeadedText ==
    ConcatAll(<<H(1), S(1), W(5), NL(1), WordsOf(2, 4), NL(1),
                H(2), S(1), W(7), NL(1), W(4)>>)

SampleMessages ==
    { [id |-> <<>>, role |-> "user", content |-> W(2), timestamp |-> 0],
      [id |-> <<>>, role |-> "user", content |-> WordsOf(6, 30), timestamp |-> 0],
      [id |-> <<>>, role |-> "user", content |-> WordsOf(5, 39), timestamp |-> 0],
      [id |-> <<>>, role |-> "user", content |-> WordsOf(3, 4), timestamp |-> 0,
       images |-> <<"png">>, pageReferences |-> <<1, 12>>],
      [id |-> <<>>, role |-> "assistant", content |-> HeadedText, timestamp |-> 0],
      [id |-> <<>>, role |-> "assistant", content |-> WordsOf(5, 40), timestamp |-> 0],
      [id |-> <<>>, role |-> "system", content |-> SummaryHeader, timestamp |-> 0] }

\* The messages of a list get their ids and timestamps in list order.
RECURSIVE StampFrom(_, _)
StampFrom(ms, i) ==
    IF Len(ms) = 0 THEN <<>>
    ELSE <<[Head(ms) EXCEPT !.id = <<"msg", i>>, !.timestamp = i]>>
         \o StampFrom(Tail(ms), i + 1)
Stamp(ms) == StampFrom(ms, 1)

\* Twenty messages of cost 100 each: four tokens of overhead and 96 for a
\* content of 384 characters in one word, under every counter.
ScenarioB ==
    Stamp([i \in 1..20 |->
              [id |-> <<>>, role |-> "user", content |-> W(384), timestamp |-> 0]])

\* An assistant message whose first line is a heading of 1200 characters,
\* after a user message.
ScenarioHeading ==
    Stamp(<<[id |-> <<>>, role |-> "user", content |-> WordsOf(3, 4), timestamp |-> 0],
            [id |-> <<>>, role |-> "assistant", timestamp |-> 0,
             content |-> ConcatAll(<<H(2), S(1), W(1200), NL(1), WordsOf(5, 40)>>)]>>)

\* A user message that refers to the pages 1..300, and its answer.
ScenarioPages ==
    Stamp(<<[id |-> <<>>, role |-> "user", content |-> WordsOf(3, 4), timestamp |-> 0,
             pageReferences |-> [i \in 1..300 |-> i]],
            [id |-> <<>>, role |-> "assistant", content |-> WordsOf(5, 40),
             timestamp |-> 0]>>)

MessageLists ==
    {Stamp(ms) : ms \in UNION {[1..n -> SampleMessages] : n \in 0..MaxLen}}
    \cup {ScenarioB, ScenarioHeading, ScenarioPages}

\* <<maxTokens, bufferThreshold>>
Budgets ==
    { <<1000, 900>>, <<500, 400>>, <<60, 50>>, <<60, 6>>, <<1200, 49>>,
      <<25, 5>>, <<10, 5>>, <<0, 0>>, <<20, 100>>, <<-1, -5>> }

TInit ==
    /\ tMessages \in MessageLists
    /\ \E b \in Budgets : tMaxTokens = b[1] /\ tBuffer = b[2]
    /\ tMethod \in EncodingMethods
    /\ tNow = 1
    /\ tResult = None

\* truncateConversation(messages, maxTokens, bufferThreshold) is evaluated.
Truncate ==
    /\ tResult = None
    /\ tResult' = truncateConversation(tMessages, tMaxTokens, tBuffer, tMethod, tNow)
    /\ UNCHANGED <<tMessages, tMaxTokens, tBuffer, tMethod, tNow>>

InitTruncate == RIdle /\ ClIdle /\ CIdle /\ TInit /\ ChIdle
NextTruncate == Truncate /\ UNCHANGED <<rvars, cvars, chvars, clvars>>
SpecTruncate == InitTruncate /\ [][NextTruncate]_vars

(***************************************************************************)
(* POST /api/chat: what it builds (src/app/api/chat/mock/route.ts:106-312, *)
(* src/lib/config/ollama.ts).                                              *)
(***************************************************************************)
OLLAMA_MODEL == "qwen2.5vl:3b"
OLLAMA_BASE_URL == "http://localhost:11434"
PROBE_ATTEMPTS == 2
HTTP_OK == 200
HTTP_INTERNAL_ERROR == 500

\* A data URL is written as the parts that split(',') yields.
DataUrl(payload) == <<"data:image/png;base64", payload>>
\* img.split(',')[1]
StripPrefix(img) == IF Len(img) >= 2 THEN img[2] ELSE Undefined
StripAll(images) == [i \in 1..Len(images) |-> StripPrefix(images[i])]

\* The request bodies the client sends (chatId apart).
Bodies ==
    { [userMessage |-> W(2)],
      [userMessage |-> WordsOf(6, 30), images |-> <<DataUrl("page1")>>,
       pageNumbers |-> <<1>>, extractedText |-> <<W(3)>>] }

\* route.ts:121-128
NewUserMessage(body, t) ==
    LET base == [id |-> <<"msg", t>>, role |-> "user", content |-> body.userMessage,
                 timestamp |-> t]
        withImages == IF Has(body, "images") THEN WithField(base, "images", body.images)
                      ELSE base
    IN IF Has(body, "pageNumbers")
       THEN WithField(withImages, "pageReferences", body.pageNumbers)
       ELSE withImages

\* route.ts:273-279
NewAssistantMsg(body, content, t) ==
    LET base == [id |-> <<"msg", t, "assistant">>, role |-> "assistant",
                 content |-> content, timestamp |-> t]
    IN IF Has(body, "pageNumbers")
       THEN WithField(base, "pageReferences", body.pageNumbers)
       ELSE base

\* The fixed instruction of route.ts:161-171.
SystemInstruction == [role |-> "system", content |-> "expert AI tutor"]

\* A request that carries the session's messages after the instruction.
ollamaMessagesWithHistory(body, messages) ==
    <<SystemInstruction>>
    \o [i \in 1..Len(messages) |->
            [role |-> messages[i].role, content |-> messages[i].content]]

\* route.ts:158-178, from the request body.  messages, the session's list, is
\* in scope there and is not used.
ollamaMessages(body, messages) ==
    << SystemInstruction,
       IF Has(body, "images")
       THEN [role |-> "user", content |-> body.userMessage,
             images |-> StripAll(body.images)]
       ELSE [role |-> "user", content |-> body.userMessage] >>

\* route.ts:147: USE_DB && extractedText && pageNumbers?.length > 0
SavesEmbeddings(e, body) ==
    /\ e.USE_DB
    /\ Has(body, "extractedText")
    /\ Has(body, "pageNumbers") /\ Len(body.pageNumbers) > 0

\* route.ts:148-150: the first page from i on whose text is not empty; 0 if
\* there is none.
RECURSIVE NextPage(_, _)
NextPage(body, i) ==
    IF i > Len(body.pageNumbers) THEN 0
    ELSE IF i <= Len(body.extractedText) /\ Chars(body.extractedText[i]) > 0 THEN i
    ELSE NextPage(body, i + 1)

\* getOllamaErrorMessage (config/ollama.ts:32-46)
getOllamaErrorMessage(error) ==
    IF NameIs(error, "AbortError") \/ NameIs(error, "TimeoutError")
    THEN <<"Request to Ollama timed out">>
    ELSE IF MessageIncludes(error, "fetch failed") \/ MessageIncludes(error, "ECONNREFUSED")
    THEN <<"Cannot connect to Ollama", "ollama serve">>
    ELSE IF MessageIncludes(error, "model not found")
    THEN <<"Model not found", "ollama pull">>
    ELSE IF Has(error, "message") /\ Len(error.message) > 0 THEN error.message
    ELSE <<"Unknown error occurred while communicating with Ollama">>

\* What fetch rejects with: the timeout of AbortSignal.timeout, a refused
\* connection, a base URL that does not parse.
FetchFailures ==
    { [name |-> "TimeoutError", message |-> <<"The operation was aborted due to timeout">>],
      [name |-> "TypeError", message |-> <<"fetch failed">>],
      [name |-> "TypeError", message |-> <<"Failed to parse URL">>] }

\* A body that JSON-parses to value, and one that does not parse.
Json(value) == [parses |-> TRUE, value |-> value]
Malformed == [parses |-> FALSE]

\* What GET /api/tags answers.
ProbeResponses ==
    { [ok |-> TRUE, status |-> HTTP_OK, json |-> Json([models |-> <<[name |-> OLLAMA_MODEL]>>])],
      [ok |-> TRUE, status |-> HTTP_OK, json |-> Json([models |-> <<[name |-> "llama3"]>>])],
      [ok |-> TRUE, status |-> HTTP_OK, json |-> Json([version |-> 1])],
      [ok |-> TRUE, status |-> HTTP_OK, json |-> Malformed],
      [ok |-> FALSE, status |-> HTTP_INTERNAL_ERROR, json |-> Malformed] }

\* What POST /api/chat of the backend answers.
GenerationResponses ==
    { [ok |-> TRUE, status |-> HTTP_OK, json |-> Json([message |-> [content |-> HeadedText]])],
      [ok |-> TRUE, status |-> HTTP_OK, json |-> Json([done |-> TRUE])],
      [ok |-> TRUE, status |-> HTTP_OK, json |-> Json([error |-> <<"model not found">>])],
      [ok |-> TRUE, status |-> HTTP_OK, json |-> Malformed],
      [ok |-> FALSE, status |-> HTTP_INTERNAL_ERROR, json |-> Malformed] }

\* A check of the model list that accepts every list.
modelExistsAlways(models) == TRUE
\* route.ts:209: models.models?.some(m => m.name === OLLAMA_CONFIG.model)
modelExists(models) ==
    /\ Has(models, "models")
    /\ \E i \in 1..Len(models.models) : models.models[i].name = OLLAMA_MODEL

\* A check of the payload that never finds an error.
hasErrorNever(responseData) == FALSE
\* route.ts:257: if (responseData.error)
hasError(responseData) ==
    Has(responseData, "error") /\ Len(responseData.error) > 0

\* route.ts:261: responseData.message?.content || ''
ContentOf(responseData) ==
    IF Has(responseData, "message") THEN responseData.message.content ELSE <<>>

ContentEvent(content) == [content |-> content, done |-> TRUE]
ErrorEvent(message) ==
    [error |-> message, type |-> "ollama_error",
     details |-> [url |-> OLLAMA_BASE_URL, model |-> OLLAMA_MODEL]]
DONE == [marker |-> "[DONE]"]

(***************************************************************************)
(* POST /api/chat: its steps.  A step runs from one await to the next.     *)
(***************************************************************************)
\* withRetry's catch block (retry.ts:24-40) for the attempt numbered a of k
\* that failed with error: what it throws, if it throws.
AfterFailure(hook, a, k, error, last) ==
    IF a = k THEN [throws |-> TRUE, thrown |-> ThrownWhenExhausted(error, last)]
    ELSE LET call == HookCall(hook, a, error)
         IN IF call.throws THEN [throws |-> TRUE, thrown |-> call.thrown]
            ELSE [throws |-> FALSE, thrown |-> Undefined]

\* controller.enqueue throws on a stream that was cancelled (its state is
\* closed): thrown inside the catch block (route.ts:297) it leaves start();
\* nothing is enqueued and nothing after it runs.
Aborted(r, stage) == [r EXCEPT !.pc = "aborted", !.failedAt = stage]

\* A catch block that closes the stream after the error event, without the
\* done marker.
FailWithoutMarker(r, stage, message) ==
    [r EXCEPT !.pc = "failed", !.failedAt = stage,
              !.events = @ \o <<ErrorEvent(message)>>, !.closed = TRUE]

\* route.ts:294-311: the catch block of the stream.
Fail(r, stage, message) ==
    IF r.cancelled THEN Aborted(r, stage)
    ELSE [r EXCEPT !.pc = "failed", !.failedAt = stage,
                   !.events = @ \o <<ErrorEvent(message), DONE>>, !.closed = TRUE]

\* route.ts:323-328: the catch block of POST.
Http500(r, stage) ==
    [r EXCEPT !.pc = "http500", !.failedAt = stage, !.http = "500"]

\* route.ts:182-190, 316: the stream is created, start() issues the first
\* probe and the response is returned.
BeginStream(r) ==
    [r EXCEPT !.pc = "probe", !.tries = 1, !.probes = 1, !.http = "stream"]

\* route.ts:147-155, then the stream.
AfterTruncation(e, r) ==
    IF SavesEmbeddings(e, r.body) /\ NextPage(r.body, 1) # 0
    THEN [r EXCEPT !.pc = "embed", !.page = NextPage(r.body, 1)]
    ELSE BeginStream(r)

\* The truncation of route.ts:140-144 without the push before it.
TruncateUnpushed(h, ref, msg, e, method, t) ==
    LET result == truncateConversation(h[ref], e.MAX_TOKEN_MEMORY,
                                       e.TOKEN_BUFFER_THRESHOLD, method, t)
    IN IF result.wasTruncated
       THEN [heap |-> Append(h, result.messages), messages |-> Len(h) + 1,
             seen |-> h[ref]]
       ELSE [heap |-> h, messages |-> ref, seen |-> h[ref]]

\* route.ts:137-144: push onto the array ref of heap h, truncate, and rebind
\* messages when the list was truncated.
PushAndTruncate(h, ref, msg, e, method, t) ==
    LET pushed == [h EXCEPT ![ref] = Append(@, msg)]
        result == truncateConversation(pushed[ref], e.MAX_TOKEN_MEMORY,
                                       e.TOKEN_BUFFER_THRESHOLD, method, t)
    IN IF result.wasTruncated
       THEN [heap |-> Append(pushed, result.messages), messages |-> Len(pushed) + 1,
             seen |-> pushed[ref]]
       ELSE [heap |-> pushed, messages |-> ref, seen |-> pushed[ref]]

StoreError == [name |-> "Error", message |-> <<"Connection terminated unexpectedly">>]
\* What the INSERT of saveMessage rejects with when the id is taken.
DuplicateKey ==
    [name |-> "error", message |-> <<"duplicate key value violates unique constraint">>]
ParseErrorMessage == <<"Unexpected token">>

\* The rows of messages for a session, ORDER BY created_at ASC; rows of equal
\* created_at in the order they were inserted.
RECURSIVE InsertByTime(_, _)
InsertByTime(sorted, row) ==
    IF Len(sorted) = 0 THEN <<row>>
    ELSE IF sorted[Len(sorted)].timestamp <= row.timestamp THEN Append(sorted, row)
    ELSE Append(InsertByTime(SubSeq(sorted, 1, Len(sorted) - 1), row), sorted[Len(sorted)])
RECURSIVE RowsOf(_, _, _)
RowsOf(rows, sessionId, i) ==
    IF i < 1 THEN <<>>
    ELSE LET before == RowsOf(rows, sessionId, i - 1)
         IN IF rows[i].session_id = sessionId
            THEN InsertByTime(before, rows[i].message)
            ELSE before
\* getSessionMessages (store module, lines 88-107)
getSessionMessages(d, sessionId) == RowsOf(d.messages, sessionId, Len(d.messages))

\* The INSERT of saveMessage (store module, lines 114-127); id is the table's
\* primary key and session_id references chat_sessions (src/db/schema.sql).
IdTaken(d, msg) == \E i \in 1..Len(d.messages) : d.messages[i].message.id = msg.id
SessionExists(d, sessionId) == sessionId \in d.chat_sessions
InsertMessage(d, sessionId, msg, tokenCount) ==
    [d EXCEPT !.messages =
        Append(@, [session_id |-> sessionId,
                   message |-> WithField(msg, "tokenCount", tokenCount)])]

Upd(t, r) == turns' = [turns EXCEPT ![t] = r]
\* Date.now() at a call of POST: the millisecond of the step before, or a
\* later one.  The first call fixes the origin of time.
ClockMoves == \E d \in {0, 1} : clock' = clock + (IF calls = 0 THEN 0 ELSE d)

\* The positions at which a handler has ended.
Ended == {"committed", "failed", "http500", "aborted"}

\* The request arrives (route.ts:106).  Without a store the handler runs on
\* to the first probe (route.ts:117-190) without an await.
Receive(t, chatId, b) ==
    LET r == IdleTurn
        body == WithField(b, "chatId", chatId)
    IN /\ turns[t].pc \in {"idle"} \cup Ended
       /\ calls < MaxTurns
       /\ calls' = calls + 1
       /\ ClockMoves
       /\ IF env.USE_DB
          THEN /\ Upd(t, [r EXCEPT !.pc = "getSession", !.body = body,
                                   !.query = isDbAvailable])
               /\ UNCHANGED heap
          ELSE LET known == chatSessions[chatId] # 0
                   ref == IF known THEN chatSessions[chatId] ELSE Len(heap) + 1
                   h == IF known THEN heap ELSE Append(heap, <<>>)
                   msg == NewUserMessage(body, clock')
                   pt == PushAndTruncate(h, ref, msg, env, counter, clock')
               IN /\ heap' = pt.heap
                  /\ Upd(t, BeginStream([r EXCEPT !.body = body, !.newUserMessage = msg,
                                                  !.userTokenCount =
                                                      countMessageTokens(msg, counter),
                                                  !.messages = pt.messages,
                                                  !.seen = pt.seen,
                                                  !.seenMethod = counter]))
       /\ UNCHANGED <<env, isDbAvailable, db, chatSessions, counter, received>>

\* getOrCreateSession returns (route.ts:113-134): the mock session when the
\* store was not available at the call (store module, lines 30-41), else the
\* stored one.  saveMessage is called.
SessionLoaded(t) ==
    LET r == turns[t]
        id == r.body.chatId
        loaded == IF r.query THEN getSessionMessages(db, id) ELSE <<>>
        msg == NewUserMessage(r.body, clock)
    IN /\ r.pc = "getSession"
       /\ heap' = Append(heap, loaded)
       /\ db' = IF r.query THEN [db EXCEPT !.chat_sessions = @ \cup {id}] ELSE db
       /\ Upd(t, [r EXCEPT !.pc = "saveUser", !.messages = Len(heap) + 1,
                           !.query = isDbAvailable,
                           !.newUserMessage = msg,
                           !.userTokenCount =
                               countMessageTokens(msg, counter)])
       /\ UNCHANGED <<env, isDbAvailable, chatSessions, clock, counter, calls, received>>

\* A query of the store rejects before the stream exists: getOrCreateSession
\* (route.ts:113), saveMessage (134), savePageEmbedding (152).  The INSERT
\* of a message whose id is taken rejects with the violation of the primary
\* key.
StoreFailsEarly(t) ==
    LET r == turns[t]
        error == IF r.pc = "saveUser" /\ IdTaken(db, r.newUserMessage)
                 THEN DuplicateKey ELSE StoreError
    IN /\ r.pc \in {"getSession", "saveUser", "embedSave"}
       /\ r.query
       /\ Upd(t, Http500([r EXCEPT !.error = error], "store"))
       /\ UNCHANGED <<env, isDbAvailable, db, heap, chatSessions, clock, counter, calls,
                      received>>

\* saveMessage of the user message returns (route.ts:134-155).
UserSaved(t) ==
    LET r == turns[t]
        msg == r.newUserMessage
        pt == PushAndTruncate(heap, r.messages, msg, env, counter, clock)
    IN /\ r.pc = "saveUser"
       /\ r.query => (~IdTaken(db, msg) /\ SessionExists(db, r.body.chatId))
       /\ db' = IF r.query
                THEN InsertMessage(db, r.body.chatId, msg, r.userTokenCount)
                ELSE db
       /\ heap' = pt.heap
       /\ Upd(t, AfterTruncation(env, [r EXCEPT !.messages = pt.messages,
                                               !.seen = pt.seen,
                                               !.seenMethod = counter]))
       /\ UNCHANGED <<env, isDbAvailable, chatSessions, clock, counter, calls, received>>

\* generateEmbedding returns (route.ts:151-152); savePageEmbedding is called.
Embedded(t) ==
    LET r == turns[t]
    IN /\ r.pc = "embed"
       /\ Upd(t, [r EXCEPT !.pc = "embedSave", !.query = isDbAvailable])
       /\ UNCHANGED <<env, isDbAvailable, db, heap, chatSessions, clock, counter, calls,
                      received>>

\* generateEmbedding rejects (route.ts:151).
EmbeddingFails(t, error) ==
    LET r == turns[t]
    IN /\ r.pc = "embed"
       /\ Upd(t, Http500([r EXCEPT !.error = error], "embedding"))
       /\ UNCHANGED <<env, isDbAvailable, db, heap, chatSessions, clock, counter, calls,
                      received>>

\* savePageEmbedding returns (route.ts:148-155): the next page with text, or
\* the stream.
EmbeddingSaved(t) ==
    LET r == turns[t]
        next == NextPage(r.body, r.page + 1)
    IN /\ r.pc = "embedSave"
       /\ r.query => SessionExists(db, r.body.chatId)
       /\ db' = IF r.query
                THEN [db EXCEPT !.page_embeddings =
                         @ \cup {<<r.body.chatId, r.body.pageNumbers[r.page]>>}]
                ELSE db
       /\ Upd(t, IF next # 0 THEN [r EXCEPT !.pc = "embed", !.page = next]
                 ELSE BeginStream(r))
       /\ UNCHANGED <<env, isDbAvailable, heap, chatSessions, clock, counter, calls,
                      received>>

\* GET /api/tags answers (route.ts:186-205).
ProbeResolves(t, resp) ==
    LET r == [turns[t] EXCEPT !.testResponse = resp]
    IN /\ turns[t].pc = "probe"
       /\ Upd(t, IF resp.ok THEN [r EXCEPT !.pc = "probeJson"]
                 ELSE Fail(r, "probe", <<"Ollama responded with", "status">>))
       /\ UNCHANGED <<env, isDbAvailable, db, heap, chatSessions, clock, counter, calls,
                      received>>

\* The probe's fetch rejects (retry.ts:24-40, route.ts:198-201).
ProbeRejects(t, error) ==
    LET r == turns[t]
        out == AfterFailure("log", r.tries, PROBE_ATTEMPTS, error, r.error)
    IN /\ r.pc = "probe"
       /\ Upd(t, IF out.throws
                 THEN Fail([r EXCEPT !.error = error], "probe",
                           getOllamaErrorMessage(out.thrown))
                 ELSE [r EXCEPT !.error = error, !.pc = "probeSleep"])
       /\ UNCHANGED <<env, isDbAvailable, db, heap, chatSessions, clock, counter, calls,
                      received>>

\* The backoff timer of the probe fires (retry.ts:39, 21-22).
ProbeTimer(t) ==
    LET r == turns[t]
    IN /\ r.pc = "probeSleep"
       /\ Upd(t, [r EXCEPT !.pc = "probe", !.tries = @ + 1, !.probes = @ + 1])
       /\ UNCHANGED <<env, isDbAvailable, db, heap, chatSessions, clock, counter, calls,
                      received>>

\* route.ts:215-231: the generation call's first attempt.
IssueGeneration(r, h) ==
    [r EXCEPT !.pc = "gen", !.tries = 1, !.error = Undefined,
              !.sent = Append(@, ollamaMessages(r.body, h[r.messages]))]

\* What the backend then holds: the request, with the body of the call that
\* sent it, the length of the session's list at that time and whether that
\* list came out of a truncation.
Delivered(r, h) ==
    [body |-> r.body, historyLen |-> Len(h[r.messages]),
     truncated |-> h[r.messages] # r.seen,
     messages |-> ollamaMessages(r.body, h[r.messages])]

\* testResponse.json() settles (route.ts:208-216).
ProbeParsed(t) ==
    LET r == turns[t]
        json == r.testResponse.json
    IN /\ r.pc = "probeJson"
       /\ Upd(t, IF ~json.parses THEN Fail(r, "probe", ParseErrorMessage)
                 ELSE IF ~modelExists(json.value)
                 THEN Fail(r, "model", <<"Model", "not found", "ollama pull">>)
                 ELSE IssueGeneration(r, heap))
       /\ received' = IF json.parses /\ modelExists(json.value)
                      THEN received \cup {Delivered(r, heap)}
                      ELSE received
       /\ UNCHANGED <<env, isDbAvailable, db, heap, chatSessions, clock, counter, calls>>

\* POST /api/chat of the backend answers (route.ts:215, 248).
GenerationResolves(t, resp) ==
    LET r == turns[t]
    IN /\ r.pc = "gen"
       /\ Upd(t, [r EXCEPT !.response = resp,
                           !.pc = IF resp.ok THEN "genJson" ELSE "genText"])
       /\ UNCHANGED <<env, isDbAvailable, db, heap, chatSessions, clock, counter, calls,
                      received>>

\* The generation call's fetch rejects (retry.ts:24-40, route.ts:235-246).
GenerationRejects(t, error) ==
    LET r == turns[t]
        out == AfterFailure("guard", r.tries, env.OLLAMA_RETRY_ATTEMPTS, error, r.error)
    IN /\ r.pc = "gen"
       /\ Upd(t, IF out.throws
                 THEN Fail([r EXCEPT !.error = error], "generation",
                           getOllamaErrorMessage(out.thrown))
                 ELSE [r EXCEPT !.error = error, !.pc = "genSleep"])
       /\ UNCHANGED <<env, isDbAvailable, db, heap, chatSessions, clock, counter, calls,
                      received>>

\* The backoff timer of the generation call fires (retry.ts:39, 21-22).
GenerationTimer(t) ==
    LET r == turns[t]
    IN /\ r.pc = "genSleep"
       /\ Upd(t, [r EXCEPT !.pc = "gen", !.tries = @ + 1,
                           !.sent = Append(@, ollamaMessages(r.body, heap[r.messages]))])
       /\ received' = received \cup {Delivered(r, heap)}
       /\ UNCHANGED <<env, isDbAvailable, db, heap, chatSessions, clock, counter, calls>>

\* response.text() of a non-success response settles (route.ts:248-252).
ErrorTextRead(t) ==
    LET r == turns[t]
    IN /\ r.pc = "genText"
       /\ Upd(t, Fail(r, "generation", <<"Ollama error", "status">>))
       /\ UNCHANGED <<env, isDbAvailable, db, heap, chatSessions, clock, counter, calls,
                      received>>

\* A completion that sends the assistant's text a second time.
CommitRepeatsContent(r) ==
    [r EXCEPT !.pc = "committed",
              !.events = @ \o <<ContentEvent(r.assistantMsg.content), DONE>>,
              !.closed = TRUE]

\* route.ts:292-293
Commit(r) ==
    IF r.cancelled THEN Aborted(r, "stream")
    ELSE [r EXCEPT !.pc = "committed", !.events = @ \o <<DONE>>, !.closed = TRUE]

\* response.json() settles (route.ts:255-293).  With a store saveMessage is
\* called; without one the assistant message is pushed, the array is stored
\* under the chat id and the stream is completed.  On a cancelled stream the
\* enqueue of the content event (270) throws.
ResponseParsed(t) ==
    LET r == turns[t]
        json == r.response.json
    IN /\ r.pc = "genJson"
       /\ IF ~json.parses
          THEN /\ Upd(t, Fail(r, "generation", ParseErrorMessage))
               /\ UNCHANGED <<heap, chatSessions, clock>>
          ELSE IF hasError(json.value)
          THEN /\ Upd(t, Fail(r, "generation", <<"Ollama error">> \o json.value.error))
               /\ UNCHANGED <<heap, chatSessions, clock>>
          ELSE IF r.cancelled
          THEN /\ Upd(t, Aborted(r, "stream"))
               /\ UNCHANGED <<heap, chatSessions, clock>>
          ELSE LET content == ContentOf(json.value)
                   msg == NewAssistantMsg(r.body, content, clock + 1)
                   sent == [r EXCEPT !.events = @ \o <<ContentEvent(content)>>,
                                     !.assistantMsg = msg,
                                     !.assistantTokenCount =
                                         countMessageTokens(msg, counter)]
               IN /\ clock' = clock + 1
                  /\ IF env.USE_DB
                     THEN /\ Upd(t, [sent EXCEPT !.pc = "saveAssistant",
                                                 !.query = isDbAvailable])
                          /\ UNCHANGED <<heap, chatSessions>>
                     ELSE /\ heap' = [heap EXCEPT ![r.messages] = Append(@, msg)]
                          /\ chatSessions' =
                                 [chatSessions EXCEPT ![r.body.chatId] = r.messages]
                          /\ Upd(t, Commit(sent))
       /\ UNCHANGED <<env, isDbAvailable, db, counter, calls, received>>

\* saveMessage of the assistant message returns (route.ts:285-293).
AssistantSaved(t) ==
    LET r == turns[t]
    IN /\ r.pc = "saveAssistant"
       /\ r.query => (~IdTaken(db, r.assistantMsg) /\ SessionExists(db, r.body.chatId))
       /\ db' = IF r.query
                THEN InsertMessage(db, r.body.chatId, r.assistantMsg,
                                   r.assistantTokenCount)
                ELSE db
       /\ Upd(t, Commit(r))
       /\ UNCHANGED <<env, isDbAvailable, heap, chatSessions, clock, counter, calls,
                      received>>

\* saveMessage of the assistant message rejects (route.ts:285, 294-311).
AssistantSaveFails(t) ==
    LET r == turns[t]
    IN /\ r.pc = "saveAssistant"
       /\ r.query
       /\ Upd(t, Fail([r EXCEPT !.error = StoreError], "store", StoreError.message))
       /\ UNCHANGED <<env, isDbAvailable, db, heap, chatSessions, clock, counter, calls,
                      received>>

\* The connection test of the store module settles (store module, lines
\* 16-27).
DbConnected(ok) ==
    /\ env.USE_DB
    /\ db.startup = "connecting"
    /\ db' = [db EXCEPT !.startup = "done"]
    /\ isDbAvailable' = ok
    /\ UNCHANGED <<env, heap, chatSessions, clock, counter, calls, received, turns>>

\* initializeTokenCounter loads a tokenizer (memory.ts:9-35); when it can
\* load none, encodingMethod stays as it is (memory.ts:36-39).
TokenCounterInitialized(method) ==
    /\ counter = "fallback"
    /\ counter' = method
    /\ UNCHANGED <<env, isDbAvailable, db, heap, chatSessions, clock, calls, received,
                   turns>>

ChatNext ==
    \/ \E t \in DOMAIN turns, chatId \in ChatIds, b \in Bodies : Receive(t, chatId, b)
    \/ \E t \in DOMAIN turns : SessionLoaded(t)
    \/ \E t \in DOMAIN turns : StoreFailsEarly(t)
    \/ \E t \in DOMAIN turns : UserSaved(t)
    \/ \E t \in DOMAIN turns : Embedded(t)
    \/ \E t \in DOMAIN turns, error \in FetchFailures : EmbeddingFails(t, error)
    \/ \E t \in DOMAIN turns : EmbeddingSaved(t)
    \/ \E t \in DOMAIN turns, resp \in ProbeResponses : ProbeResolves(t, resp)
    \/ \E t \in DOMAIN turns, error \in FetchFailures : ProbeRejects(t, error)
    \/ \E t \in DOMAIN turns : ProbeTimer(t)
    \/ \E t \in DOMAIN turns : ProbeParsed(t)
    \/ \E t \in DOMAIN turns, resp \in GenerationResponses : GenerationResolves(t, resp)
    \/ \E t \in DOMAIN turns, error \in FetchFailures : GenerationRejects(t, error)
    \/ \E t \in DOMAIN turns : GenerationTimer(t)
    \/ \E t \in DOMAIN turns : ErrorTextRead(t)
    \/ \E t \in DOMAIN turns : ResponseParsed(t)
    \/ \E t \in DOMAIN turns : AssistantSaved(t)
    \/ \E t \in DOMAIN turns : AssistantSaveFails(t)
    \/ \E ok \in BOOLEAN : DbConnected(ok)
    \/ \E method \in EncodingMethods \ {"fallback"} : TokenCounterInitialized(method)

\* The caller cancels the stream it was answered with (the client goes away
\* or aborts its request).  The stream has no cancel callback
\* (route.ts:182-314): start() runs on.
Cancel(t) ==
    /\ turns[t].http = "stream"
    /\ turns[t].pc \notin Ended
    /\ ~turns[t].cancelled
    /\ Upd(t, [turns[t] EXCEPT !.cancelled = TRUE, !.closed = TRUE])
    /\ UNCHANGED <<env, isDbAvailable, db, heap, chatSessions, clock, counter, calls,
                   received>>

InitChat == RIdle /\ ClIdle /\ CIdle /\ TIdle /\ \E e \in Envs : ChStart(e)
NextChat == ChatNext /\ UNCHANGED <<rvars, cvars, tvars, clvars>>
SpecChat == InitChat /\ [][NextChat]_vars

\* POST /api/chat with callers that may cancel.
NextChatCancel ==
    (ChatNext \/ \E t \in DOMAIN turns : Cancel(t)) /\ UNCHANGED <<rvars, cvars, tvars, clvars>>
SpecChatCancel == InitChat /\ [][NextChatCancel]_vars

\* POST /api/chat with one handler in progress per chat id, each serving
\* calls on its own chat id with a short text; the token counter stays the
\* fallback.
ConcurrentTurns == 1..Cardinality(ChatIds)
ChatOf(t) == <<"a", "b">>[t]
ConcurrentEnvs == {e \in Envs : e.OLLAMA_RETRY_ATTEMPTS = 1}
ConcurrentNext ==
    \/ \E t \in DOMAIN turns : Receive(t, ChatOf(t), [userMessage |-> W(2)])
    \/ \E t \in DOMAIN turns : SessionLoaded(t)
    \/ \E t \in DOMAIN turns : StoreFailsEarly(t)
    \/ \E t \in DOMAIN turns : UserSaved(t)
    \/ \E t \in DOMAIN turns, resp \in ProbeResponses : ProbeResolves(t, resp)
    \/ \E t \in DOMAIN turns, error \in FetchFailures : ProbeRejects(t, error)
    \/ \E t \in DOMAIN turns : ProbeTimer(t)
    \/ \E t \in DOMAIN turns : ProbeParsed(t)
    \/ \E t \in DOMAIN turns, resp \in GenerationResponses : GenerationResolves(t, resp)
    \/ \E t \in DOMAIN turns, error \in FetchFailures : GenerationRejects(t, error)
    \/ \E t \in DOMAIN turns : ErrorTextRead(t)
    \/ \E t \in DOMAIN turns : ResponseParsed(t)
    \/ \E t \in DOMAIN turns : AssistantSaved(t)
    \/ \E t \in DOMAIN turns : AssistantSaveFails(t)
    \/ \E ok \in BOOLEAN : DbConnected(ok)

InitChatConcurrent ==
    RIdle /\ ClIdle /\ CIdle /\ TIdle /\ \E e \in ConcurrentEnvs : ChStartWith(e, ConcurrentTurns)
NextChatConcurrent == ConcurrentNext /\ UNCHANGED <<rvars, cvars, tvars, clvars>>
SpecChatConcurrent == InitChatConcurrent /\ [][NextChatConcurrent]_vars

\* POST /api/chat without a store, with two handlers in progress on the one
\* chat id "a", whose list holds an earlier turn.
EarlierTurn ==
    LET body == [chatId |-> "a", userMessage |-> W(2)]
    IN <<NewUserMessage(body, 0), NewAssistantMsg(body, W(3), 1)>>
SharedEnvs == {e \in ConcurrentEnvs : ~e.USE_DB}
SharedNext ==
    \/ \E t \in DOMAIN turns : Receive(t, "a", [userMessage |-> W(2)])
    \/ \E t \in DOMAIN turns, resp \in ProbeResponses : ProbeResolves(t, resp)
    \/ \E t \in DOMAIN turns, error \in FetchFailures : ProbeRejects(t, error)
    \/ \E t \in DOMAIN turns : ProbeTimer(t)
    \/ \E t \in DOMAIN turns : ProbeParsed(t)
    \/ \E t \in DOMAIN turns, resp \in GenerationResponses : GenerationResolves(t, resp)
    \/ \E t \in DOMAIN turns, error \in FetchFailures : GenerationRejects(t, error)
    \/ \E t \in DOMAIN turns : ErrorTextRead(t)
    \/ \E t \in DOMAIN turns : ResponseParsed(t)

InitChatShared ==
    /\ RIdle /\ ClIdle /\ CIdle /\ TIdle
    /\ \E e \in SharedEnvs : env = e
    /\ isDbAvailable = FALSE
    /\ db = EmptyDb
    /\ heap = <<EarlierTurn>>
    /\ chatSessions = [id \in ChatIds |-> IF id = "a" THEN 1 ELSE 0]
    /\ clock = 1
    /\ counter = "fallback"
    /\ calls = 0
    /\ received = {}
    /\ turns = [t \in ConcurrentTurns |-> IdleTurn]
NextChatShared == SharedNext /\ UNCHANGED <<rvars, cvars, tvars, clvars>>
SpecChatShared == InitChatShared /\ [][NextChatShared]_vars

(***************************************************************************)
(* GET /api/chat, the health check (src/app/api/chat/mock/route.ts:332-360) *)
(***************************************************************************)
HTTP_SERVICE_UNAVAILABLE == 503

\* An answer that leaves out the context length.
HealthOkWithoutContext(e, data, t) ==
    [status |-> HTTP_OK,
     body |-> [status |-> "ok", model |-> OLLAMA_MODEL,
               available |-> modelExists(data), timestamp |-> t]]
\* route.ts:340-351: NextResponse.json without a status answers 200.
HealthOk(e, data, t) ==
    [status |-> HTTP_OK,
     body |-> [status |-> "ok", model |-> OLLAMA_MODEL,
               contextLength |-> e.OLLAMA_NUM_CONTEXT,
               available |-> modelExists(data), timestamp |-> t,
               config |-> [retry |-> [maxAttempts |-> e.OLLAMA_RETRY_ATTEMPTS]]]]
\* route.ts:352-358
HealthError(t) ==
    [status |-> HTTP_SERVICE_UNAVAILABLE,
     body |-> [status |-> "error", message |-> <<"Failed to connect to Ollama">>,
               timestamp |-> t]]

\* GET is called (route.ts:332-337): the fetch of /api/tags is issued.
HealthReceive(t) ==
    /\ turns[t].pc \in {"idle", "answered"}
    /\ calls < MaxTurns
    /\ calls' = calls + 1
    /\ Upd(t, [IdleTurn EXCEPT !.pc = "healthFetch"])
    /\ UNCHANGED <<env, isDbAvailable, db, heap, chatSessions, clock, counter, received>>

\* The fetch resolves, with whatever status (route.ts:335-338).
HealthFetchResolves(t, resp) ==
    /\ turns[t].pc = "healthFetch"
    /\ Upd(t, [turns[t] EXCEPT !.pc = "healthJson", !.testResponse = resp])
    /\ UNCHANGED <<env, isDbAvailable, db, heap, chatSessions, clock, counter, calls,
                   received>>

\* The fetch rejects (route.ts:335, 352-358).
HealthFetchRejects(t, error) ==
    /\ turns[t].pc = "healthFetch"
    /\ \E d \in {0, 1} : clock' = clock + d
    /\ Upd(t, [turns[t] EXCEPT !.pc = "answered", !.error = error,
                              !.answer = HealthError(clock')])
    /\ UNCHANGED <<env, isDbAvailable, db, heap, chatSessions, counter, calls, received>>

\* response.json() settles (route.ts:338-358).
HealthParsed(t) ==
    LET r == turns[t]
        json == r.testResponse.json
    IN /\ r.pc = "healthJson"
       /\ \E d \in {0, 1} : clock' = clock + d
       /\ Upd(t, [r EXCEPT !.pc = "answered",
                           !.answer = IF json.parses
                                      THEN HealthOk(env, json.value, clock')
                                      ELSE HealthError(clock')])
       /\ UNCHANGED <<env, isDbAvailable, db, heap, chatSessions, counter, calls,
                      received>>

HealthNext ==
    \/ \E t \in DOMAIN turns : HealthReceive(t)
    \/ \E t \in DOMAIN turns, resp \in ProbeResponses : HealthFetchResolves(t, resp)
    \/ \E t \in DOMAIN turns, error \in FetchFailures : HealthFetchRejects(t, error)
    \/ \E t \in DOMAIN turns : HealthParsed(t)

NextHealth == HealthNext /\ UNCHANGED <<rvars, cvars, tvars, clvars>>
SpecHealth == InitChat /\ [][NextHealth]_vars

(***************************************************************************)
(* GET /api/ollama/health (src/app/api/ollama/health/route.ts:5-112)       *)
(***************************************************************************)
\* What POST /api/generate of the backend answers to the test prompt.
TestGenerationResponses ==
    { [ok |-> TRUE, status |-> HTTP_OK, json |-> Json([response |-> W(4)])],
      [ok |-> TRUE, status |-> HTTP_OK, json |-> Json([response |-> <<>>])],
      [ok |-> TRUE, status |-> HTTP_OK, json |-> Json([error |-> <<"model not found">>])],
      [ok |-> TRUE, status |-> HTTP_OK, json |-> Malformed],
      [ok |-> FALSE, status |-> HTTP_INTERNAL_ERROR, json |-> Malformed] }

\* health/route.ts:6-21
InitialResults(e, t) ==
    [ollama |-> [url |-> OLLAMA_BASE_URL, model |-> OLLAMA_MODEL, status |-> "unknown",
                 error |-> Undefined, models |-> <<>>,
                 contextSize |-> e.OLLAMA_NUM_CONTEXT],
     checks |-> [connection |-> FALSE, modelAvailable |-> FALSE,
                 testGeneration |-> FALSE],
     timestamp |-> t]

\* A handler of GET that has not received a call yet.
IdleCheck ==
    [pc |-> "idle", results |-> Undefined, tagsResponse |-> Undefined,
     testResponse |-> Undefined, tries |-> 0, error |-> Undefined, generations |-> 0,
     answer |-> Undefined]

\* A verdict that looks at the connection alone.
isHealthyWhenConnected(results) == results.checks.connection
\* health/route.ts:104
isHealthy(results) == results.checks.connection /\ results.checks.modelAvailable

\* health/route.ts:103-111
Respond(r) ==
    [r EXCEPT !.pc = "answered",
              !.answer = [status |-> IF isHealthy(r.results) THEN HTTP_OK
                                     ELSE HTTP_SERVICE_UNAVAILABLE,
                          body |-> r.results]]

\* health/route.ts:98-101: the catch block of the checks.
CheckFailed(r, error) ==
    Respond([r EXCEPT !.error = error,
                      !.results.ollama.status = "error",
                      !.results.ollama.error = getOllamaErrorMessage(error)])

\* health/route.ts:48: modelsData.models?.map(m => m.name) || []
ModelNames(modelsData) ==
    IF Has(modelsData, "models")
    THEN [i \in 1..Len(modelsData.models) |-> modelsData.models[i].name]
    ELSE <<>>

\* GET is called (health/route.ts:5-29): the fetch of /api/tags is issued.
CheckReceive(t) ==
    /\ turns[t].pc \in {"idle", "answered"}
    /\ calls < MaxTurns
    /\ calls' = calls + 1
    /\ \E d \in {0, 1} : clock' = clock + d
    /\ Upd(t, [IdleCheck EXCEPT !.pc = "tags", !.tries = 1,
                                !.results = InitialResults(env, clock')])
    /\ UNCHANGED <<env, isDbAvailable, db, heap, chatSessions, counter, received>>

\* The fetch of /api/tags resolves (health/route.ts:25-44).
TagsResolves(t, resp) ==
    LET r == [turns[t] EXCEPT !.tagsResponse = resp]
    IN /\ turns[t].pc = "tags"
       /\ Upd(t, IF ~resp.ok
                 THEN CheckFailed(r, [name |-> "Error",
                                      message |-> <<"Ollama responded with", "status">>])
                 ELSE [r EXCEPT !.pc = "tagsJson",
                                !.results.checks.connection = TRUE,
                                !.results.ollama.status = "connected"])
       /\ UNCHANGED <<env, isDbAvailable, db, heap, chatSessions, clock, counter, calls,
                      received>>

\* The fetch of /api/tags rejects (retry.ts:24-40, health/route.ts:98-101).
TagsRejects(t, error) ==
    LET r == turns[t]
        out == AfterFailure("log", r.tries, PROBE_ATTEMPTS, error, r.error)
    IN /\ r.pc = "tags"
       /\ Upd(t, IF out.throws THEN CheckFailed(r, out.thrown)
                 ELSE [r EXCEPT !.error = error, !.pc = "tagsSleep"])
       /\ UNCHANGED <<env, isDbAvailable, db, heap, chatSessions, clock, counter, calls,
                      received>>

\* The backoff timer fires and /api/tags is fetched again (retry.ts:39, 21).
TagsTimer(t) ==
    LET r == turns[t]
    IN /\ r.pc = "tagsSleep"
       /\ Upd(t, [r EXCEPT !.pc = "tags", !.tries = @ + 1])
       /\ UNCHANGED <<env, isDbAvailable, db, heap, chatSessions, clock, counter, calls,
                      received>>

\* tagsResponse.json() settles (health/route.ts:47-59): the model is looked
\* up and, when it is there, the test generation is requested.
TagsParsed(t) ==
    LET r == turns[t]
        json == r.tagsResponse.json
        names == ModelNames(json.value)
        available == Includes(names, OLLAMA_MODEL)
        listed == [r EXCEPT !.results.ollama.models = names,
                            !.results.checks.modelAvailable = available]
    IN /\ r.pc = "tagsJson"
       /\ Upd(t, IF ~json.parses
                 THEN CheckFailed(r, [name |-> "SyntaxError",
                                      message |-> ParseErrorMessage])
                 ELSE IF ~available
                 THEN Respond([listed EXCEPT !.results.ollama.error =
                                                 <<"Model not found", names>>])
                 ELSE IF LoopCondition(1, env.OLLAMA_RETRY_ATTEMPTS)
                 THEN [listed EXCEPT !.pc = "generate", !.tries = 1, !.generations = 1]
                 ELSE Respond(listed))
       /\ UNCHANGED <<env, isDbAvailable, db, heap, chatSessions, clock, counter, calls,
                      received>>

\* The fetch of /api/generate resolves (health/route.ts:59-90).
TestResolves(t, resp) ==
    LET r == [turns[t] EXCEPT !.testResponse = resp]
    IN /\ turns[t].pc = "generate"
       /\ Upd(t, IF resp.ok THEN [r EXCEPT !.pc = "generateJson"] ELSE Respond(r))
       /\ UNCHANGED <<env, isDbAvailable, db, heap, chatSessions, clock, counter, calls,
                      received>>

\* The fetch of /api/generate rejects (retry.ts:24-40, health/route.ts:92-95).
TestRejects(t, error) ==
    LET r == turns[t]
        out == AfterFailure("log", r.tries, env.OLLAMA_RETRY_ATTEMPTS, error, r.error)
    IN /\ r.pc = "generate"
       /\ Upd(t, IF out.throws THEN Respond([r EXCEPT !.error = error])
                 ELSE [r EXCEPT !.error = error, !.pc = "generateSleep"])
       /\ UNCHANGED <<env, isDbAvailable, db, heap, chatSessions, clock, counter, calls,
                      received>>

\* The backoff timer fires and /api/generate is fetched again.
TestTimer(t) ==
    LET r == turns[t]
    IN /\ r.pc = "generateSleep"
       /\ Upd(t, [r EXCEPT !.pc = "generate", !.tries = @ + 1, !.generations = @ + 1])
       /\ UNCHANGED <<env, isDbAvailable, db, heap, chatSessions, clock, counter, calls,
                      received>>

\* testResponse.json() settles (health/route.ts:86-95).
TestParsed(t) ==
    LET r == turns[t]
        json == r.testResponse.json
        truthy == json.parses /\ Has(json.value, "response") /\ Len(json.value.response) > 0
    IN /\ r.pc = "generateJson"
       /\ Upd(t, Respond([r EXCEPT !.results.checks.testGeneration = truthy]))
       /\ UNCHANGED <<env, isDbAvailable, db, heap, chatSessions, clock, counter, calls,
                      received>>

OllamaHealthNext ==
    \/ \E t \in DOMAIN turns : CheckReceive(t)
    \/ \E t \in DOMAIN turns, resp \in ProbeResponses : TagsResolves(t, resp)
    \/ \E t \in DOMAIN turns, error \in FetchFailures : TagsRejects(t, error)
    \/ \E t \in DOMAIN turns : TagsTimer(t)
    \/ \E t \in DOMAIN turns : TagsParsed(t)
    \/ \E t \in DOMAIN turns, resp \in TestGenerationResponses : TestResolves(t, resp)
    \/ \E t \in DOMAIN turns, error \in FetchFailures : TestRejects(t, error)
    \/ \E t \in DOMAIN turns : TestTimer(t)
    \/ \E t \in DOMAIN turns : TestParsed(t)

InitOllamaHealth ==
    /\ RIdle /\ ClIdle /\ CIdle /\ TIdle
    /\ \E e \in Envs : env = e
    /\ isDbAvailable = FALSE
    /\ db = EmptyDb
    /\ heap = <<>>
    /\ chatSessions = [id \in ChatIds |-> 0]
    /\ clock = 1
    /\ counter = "fallback"
    /\ calls = 0
    /\ received = {}
    /\ turns = [t \in Turns |-> IdleCheck]
NextOllamaHealth == OllamaHealthNext /\ UNCHANGED <<rvars, cvars, tvars, clvars>>
SpecOllamaHealth == InitOllamaHealth /\ [][NextOllamaHealth]_vars

(***************************************************************************)
(* The client: handleAnalyze (src/components/ChatInterface.tsx:217-350)    *)
(* and the stream it reads.  A step runs from one await to the next.       *)
(***************************************************************************)
RATE_LIMIT_MS == 1000
\* The browser's clock advances in steps of half the rate limit, from a
\* time later than the rate limit.
TickMs == RATE_LIMIT_MS \div 2
StartOfClock == 2 * RATE_LIMIT_MS
ClientTabs == 1..MaxTabs

\* The needles of the client's includes() tests that a phrase of an error
\* message contains (the tests are case-sensitive).
NeedlesIn(phrase) ==
    CASE phrase = "Request to Ollama timed out" -> {"Ollama", "timed out"}
      [] phrase = "Cannot connect to Ollama" ->
             {"Ollama", "Cannot connect", "Cannot connect to Ollama"}
      [] phrase = "Unknown error occurred while communicating with Ollama" -> {"Ollama"}
      [] phrase = "Ollama responded with" -> {"Ollama"}
      [] phrase = "Ollama error" -> {"Ollama"}
      [] phrase = "Model not found" -> {"Model", "not found"}
      [] phrase = "Model" -> {"Model"}
      [] phrase = "not found" -> {"not found"}
      [] phrase = "model not found" -> {"not found"}
      [] phrase = "Failed to analyze" -> {"Failed to analyze"}
      [] OTHER -> {}
\* error.message.includes(needle)
TextIncludes(message, needle) ==
    \E i \in 1..Len(message) : needle \in NeedlesIn(message[i])

\* route.ts:35-44: the stream of the mock endpoint, one content event per
\* word ("I'm ", "a ", "mock ") and the done marker.
MockStream ==
    <<[content |-> W(3) \o S(1)], [content |-> W(1) \o S(1)],
      [content |-> W(4) \o S(1)], DONE>>

\* The error messages POST /api/chat sends in an error event.
ServerErrorMessages ==
    { <<"Request to Ollama timed out">>,
      <<"Cannot connect to Ollama", "ollama serve">>,
      <<"Failed to parse URL">>,
      <<"Ollama responded with", "status">>,
      <<"Model", "not found", "ollama pull">>,
      <<"Ollama error", "status">>,
      <<"Ollama error", "model not found">>,
      ParseErrorMessage,
      StoreError.message }

\* The event sequences the server enqueues before it closes a stream: the
\* reply, an empty reply, an error, a reply followed by an error, and the
\* mock endpoint's words.
ServerStreams ==
    { <<ContentEvent(HeadedText), DONE>>, <<ContentEvent(<<>>), DONE>>, MockStream }
    \cup { <<ErrorEvent(m), DONE>> : m \in ServerErrorMessages }
    \cup { <<ContentEvent(c), ErrorEvent(StoreError.message), DONE>> :
               c \in {HeadedText, <<>>} }

\* The characters of a stream, in pieces: for each event the prefix
\* 'data: ', the two halves of its payload and the two newlines.
Pre == [k |-> "pre"]
Nl == [k |-> "nl"]
Payload(ev, part) == [k |-> "payload", ev |-> ev, part |-> part]
\* route.ts:269-270, 299-310: `data: ${JSON.stringify(payload)}\n\n`
Encode(events) ==
    IF Len(events) = 0 THEN <<>>
    ELSE LET RECURSIVE enc(_)
             enc(i) == IF i > Len(events) THEN <<>>
                       ELSE <<Pre, Payload(events[i], 1), Payload(events[i], 2), Nl, Nl>>
                            \o enc(i + 1)
         IN enc(1)

\* chunk.split('\n')
RECURSIVE SplitChunk(_, _)
SplitChunk(chunk, cur) ==
    IF Len(chunk) = 0 THEN <<cur>>
    ELSE IF Head(chunk) = Nl THEN <<cur>> \o SplitChunk(Tail(chunk), <<>>)
    ELSE SplitChunk(Tail(chunk), Append(cur, Head(chunk)))

\* line.startsWith('data: ')
StartsWithData(line) == Len(line) >= 1 /\ line[1] = Pre
\* The text after the prefix is a whole payload.
IsWhole(rest) ==
    /\ Len(rest) = 2
    /\ rest[1].k = "payload" /\ rest[2].k = "payload"
    /\ rest[1].part = 1 /\ rest[2].part = 2
    /\ rest[1].ev = rest[2].ev
\* line === 'data: [DONE]'
IsDoneLine(line) == IsWhole(Tail(line)) /\ line[2].ev = DONE
\* JSON.parse(line.slice(6)): a whole payload parses, a part of one does not.
ParseLine(line) ==
    IF IsWhole(Tail(line)) /\ line[2].ev # DONE THEN Json(line[2].ev) ELSE Malformed

\* ChatInterface.tsx:295-297: the errors the catch block of a line rethrows.
Rethrown(message) ==
    TextIncludes(message, "Ollama") \/ TextIncludes(message, "Cannot connect")

\* ChatInterface.tsx:280-306: one line of a chunk.  acc holds fullMessage
\* and what was thrown out of the loop, if anything.
ProcessLine(line, acc) ==
    IF acc.thrown # Undefined \/ ~StartsWithData(line) \/ IsDoneLine(line) THEN acc
    ELSE LET parsed == ParseLine(line)
             data == parsed.value
         IN IF ~parsed.parses THEN acc
            ELSE IF Has(data, "error") /\ Len(data.error) > 0
            THEN IF Rethrown(data.error)
                 THEN [acc EXCEPT !.thrown = [name |-> "Error", message |-> data.error]]
                 ELSE acc
            ELSE IF Has(data, "content") /\ Len(data.content) > 0
            THEN [acc EXCEPT !.fullMessage = @ \o data.content]
            ELSE acc

RECURSIVE ProcessLines(_, _)
ProcessLines(lines, acc) ==
    IF Len(lines) = 0 THEN acc
    ELSE ProcessLines(Tail(lines), ProcessLine(Head(lines), acc))

\* ChatInterface.tsx:277-307: one chunk.
ProcessChunk(chunk, fullMessage) ==
    ProcessLines(SplitChunk(chunk, <<>>), [fullMessage |-> fullMessage, thrown |-> Undefined])

\* ChatInterface.tsx:323-337: the notice for an error.
ErrorContent(error) ==
    LET m == error.message
    IN IF TextIncludes(m, "Cannot connect to Ollama")
          \/ TextIncludes(m, "Ollama is not running")
       THEN [category |-> "connection"]
       ELSE IF TextIncludes(m, "Model") /\ TextIncludes(m, "not found")
       THEN [category |-> "model", message |-> m]
       ELSE IF TextIncludes(m, "timed out")
       THEN [category |-> "timeout", message |-> m]
       ELSE IF TextIncludes(m, "Failed to analyze")
       THEN [category |-> "failed", message |-> m]
       ELSE [category |-> "error", message |-> m]

\* A page's React state after mounting (ChatInterface.tsx:194-198).
MountedTab(t) ==
    [currentChatId |-> <<"chat", t>>, messages |-> <<>>, isStreaming |-> FALSE,
     streamingMessage |-> <<>>, analyzedPages |-> <<>>]

\* ChatInterface.tsx:220, 225: the key of the rate limit in localStorage.
LastAnalyzeKey(tab) == <<"last-analyze">>

\* ChatInterface.tsx:220: parseInt(localStorage.getItem(key) || '0')
LastAnalyze(tab) ==
    IF Has(localStorage, LastAnalyzeKey(tab)) THEN localStorage[LastAnalyzeKey(tab)] ELSE 0

\* ChatInterface.tsx:227-234, 310-316, 339-344: the messages a call creates.
ClientUserMessage(h, pageNumbers, t) ==
    [id |-> <<"msg", t>>, role |-> "user", content |-> <<"Please analyze", pageNumbers>>,
     pageReferences |-> pageNumbers, call |-> h]
ClientAssistantMessage(h, pageNumbers, fullMessage, t) ==
    [id |-> <<"msg", t, "response">>, role |-> "assistant", content |-> fullMessage,
     pageReferences |-> pageNumbers, call |-> h]
ClientErrorMessage(h, error, t) ==
    [id |-> <<"msg", t, "error">>, role |-> "assistant", content |-> ErrorContent(error),
     call |-> h]

SetCall(h, c) == analyzeCalls' = [analyzeCalls EXCEPT ![h] = c]

\* The catch block without the finally block after it: the notice is
\* appended and the streaming state is left as it was.
CaughtWithoutFinally(h, error) ==
    LET c == analyzeCalls[h]
    IN /\ tabs' = [tabs EXCEPT ![c.tab].messages =
                                   Append(@, ClientErrorMessage(h, error, wallClock))]
       /\ SetCall(h, [c EXCEPT !.pc = "done", !.error = error])

\* ChatInterface.tsx:319-349: the catch block and finally.
Caught(h, error) ==
    LET c == analyzeCalls[h]
    IN /\ tabs' = [tabs EXCEPT ![c.tab].messages =
                                   Append(@, ClientErrorMessage(h, error, wallClock)),
                               ![c.tab].isStreaming = FALSE,
                               ![c.tab].streamingMessage = <<>>]
       /\ SetCall(h, [c EXCEPT !.pc = "done", !.error = error])

\* Date.now() advances.
Tick ==
    /\ wallClock < StartOfClock + MaxTicks * TickMs
    /\ wallClock' = wallClock + TickMs
    /\ UNCHANGED <<localStorage, tabs, analyzeCalls, requests>>

\* handleAnalyze(pageNumbers, images) is called on a page
\* (ChatInterface.tsx:217-262): the rate limit, the user message, the state
\* updates and the fetch.
handleAnalyze(tab, pageNumbers) ==
    LET h == Len(analyzeCalls) + 1
        lastAnalyze == LastAnalyze(tab)
        call == [pc |-> "fetch", tab |-> tab, pageNumbers |-> pageNumbers,
                 at |-> wallClock, stream |-> <<>>, wire |-> <<>>, fullMessage |-> <<>>,
                 error |-> Undefined, midLine |-> FALSE]
    IN /\ IF wallClock - lastAnalyze < RATE_LIMIT_MS
          THEN /\ analyzeCalls' = Append(analyzeCalls, [call EXCEPT !.pc = "rejected"])
               /\ UNCHANGED <<localStorage, tabs, requests>>
          ELSE /\ localStorage' = WithField(localStorage, LastAnalyzeKey(tab), wallClock)
               /\ tabs' = [tabs EXCEPT
                              ![tab].messages =
                                  Append(@, ClientUserMessage(h, pageNumbers, wallClock)),
                              ![tab].isStreaming = TRUE,
                              ![tab].streamingMessage = <<>>,
                              ![tab].analyzedPages = @ \o pageNumbers]
               /\ requests' = Append(requests, [chatId |-> tabs[tab].currentChatId,
                                                pageNumbers |-> pageNumbers])
               /\ analyzeCalls' = Append(analyzeCalls, call)
       /\ UNCHANGED wallClock

\* fetch rejects (ChatInterface.tsx:252, 319).
ClientFetchRejects(h) ==
    /\ analyzeCalls[h].pc = "fetch"
    /\ Caught(h, [name |-> "TypeError", message |-> <<"Failed to fetch">>])
    /\ UNCHANGED <<wallClock, localStorage, requests>>

\* fetch resolves with a status other than 2xx (ChatInterface.tsx:265).
ClientFetchNotOk(h) ==
    /\ analyzeCalls[h].pc = "fetch"
    /\ Caught(h, [name |-> "Error", message |-> <<"Failed to analyze">>])
    /\ UNCHANGED <<wallClock, localStorage, requests>>

\* fetch resolves with the stream of events (ChatInterface.tsx:265-272).
ClientFetchResolves(h, events) ==
    /\ analyzeCalls[h].pc = "fetch"
    /\ SetCall(h, [analyzeCalls[h] EXCEPT !.pc = "read", !.stream = events,
                                          !.wire = Encode(events)])
    /\ UNCHANGED <<wallClock, localStorage, tabs, requests>>

\* reader.read() resolves with the next n pieces of the stream
\* (ChatInterface.tsx:274-307).
ClientRead(h, n) ==
    LET c == analyzeCalls[h]
        chunk == SubSeq(c.wire, 1, n)
        rest == SubSeq(c.wire, n + 1, Len(c.wire))
        out == ProcessChunk(chunk, c.fullMessage)
        read == [c EXCEPT !.wire = rest, !.fullMessage = out.fullMessage,
                          !.midLine = @ \/ (chunk[n] # Nl /\ rest # <<>>)]
    IN /\ c.pc = "read"
       /\ n \in 1..Len(c.wire)
       /\ IF out.thrown # Undefined
          THEN /\ tabs' = [tabs EXCEPT
                              ![c.tab].messages =
                                  Append(@, ClientErrorMessage(h, out.thrown, wallClock)),
                              ![c.tab].isStreaming = FALSE,
                              ![c.tab].streamingMessage = <<>>]
               /\ SetCall(h, [read EXCEPT !.pc = "done", !.error = out.thrown])
          ELSE /\ tabs' = [tabs EXCEPT ![c.tab].streamingMessage =
                                           IF out.fullMessage # c.fullMessage
                                           THEN out.fullMessage ELSE @]
               /\ SetCall(h, read)
       /\ UNCHANGED <<wallClock, localStorage, requests>>

\* reader.read() resolves with done (ChatInterface.tsx:274-275, 310-318,
\* 346-349): the assistant message and finally.
ClientReadDone(h) ==
    LET c == analyzeCalls[h]
    IN /\ c.pc = "read"
       /\ c.wire = <<>>
       /\ tabs' = [tabs EXCEPT
                      ![c.tab].messages =
                          Append(@, ClientAssistantMessage(h, c.pageNumbers, c.fullMessage,
                                                           wallClock)),
                      ![c.tab].isStreaming = FALSE,
                      ![c.tab].streamingMessage = <<>>]
       /\ SetCall(h, [c EXCEPT !.pc = "done"])
       /\ UNCHANGED <<wallClock, localStorage, requests>>

\* reader.read() rejects: the connection broke (ChatInterface.tsx:274, 319).
ClientReadRejects(h) ==
    /\ analyzeCalls[h].pc = "read"
    /\ Caught(h, [name |-> "TypeError", message |-> <<"network error">>])
    /\ UNCHANGED <<wallClock, localStorage, requests>>

\* What the network and the server do to a call in progress.
Settle(h, streams) ==
    \/ ClientFetchRejects(h)
    \/ ClientFetchNotOk(h)
    \/ \E events \in streams : ClientFetchResolves(h, events)
    \/ \E n \in 1..Len(analyzeCalls[h].wire) : ClientRead(h, n)
    \/ ClientReadDone(h)
    \/ ClientReadRejects(h)

\* The calls that have not returned yet.
InProgress == {h \in DOMAIN analyzeCalls : analyzeCalls[h].pc \in {"fetch", "read"}}

\* The steps of the browser with the pages in openTabs used for up to limit
\* calls and the server answering with one of streams.
ClientNextWith(openTabs, streams, limit) ==
    \/ Tick
    \/ \E tab \in openTabs : Len(analyzeCalls) < limit /\ handleAnalyze(tab, <<tab>>)
    \/ \E h \in DOMAIN analyzeCalls : ClientFetchRejects(h)
    \/ \E h \in DOMAIN analyzeCalls : ClientFetchNotOk(h)
    \/ \E h \in DOMAIN analyzeCalls, events \in streams : ClientFetchResolves(h, events)
    \/ \E h \in DOMAIN analyzeCalls :
          \E n \in 1..Len(analyzeCalls[h].wire) : ClientRead(h, n)
    \/ \E h \in DOMAIN analyzeCalls : ClientReadDone(h)
    \/ \E h \in DOMAIN analyzeCalls : ClientReadRejects(h)

\* A reply and an error that is rethrown.
SampleStreams ==
    { <<ContentEvent(HeadedText), DONE>>,
      <<ErrorEvent(<<"Request to Ollama timed out">>), DONE>> }

InitClient ==
    /\ RIdle /\ CIdle /\ TIdle /\ ChIdle
    /\ wallClock = StartOfClock
    /\ localStorage = <<>>
    /\ tabs = [t \in ClientTabs |-> MountedTab(t)]
    /\ analyzeCalls = <<>>
    /\ requests = <<>>
\* Two pages whose calls overlap.
NextClient ==
    ClientNextWith(ClientTabs, SampleStreams, MaxSubmissions) /\ UNCHANGED <<rvars, cvars, tvars, chvars>>
SpecClient == InitClient /\ [][NextClient]_vars
\* One call on one page, with every stream of the server.
NextClientStreams ==
    ClientNextWith({1}, ServerStreams, MaxStreamedCalls) /\ UNCHANGED <<rvars, cvars, tvars, chvars>>
SpecClientStreams == InitClient /\ [][NextClientStreams]_vars
\* The same with every request and every read settling.
SettleStep(h) ==
    /\ h \in DOMAIN analyzeCalls
    /\ Settle(h, SampleStreams)
    /\ UNCHANGED <<rvars, cvars, tvars, chvars>>

SpecClientFair == SpecClient /\ \A h \in 1..MaxSubmissions : WF_vars(SettleStep(h))

(***************************************************************************)
(* Properties of withRetry, checked under Spec.                            *)
(***************************************************************************)
Last(q) == q[Len(q)]

\* The call ended because the attempt numbered maxAttempts failed: every
\* attempt failed and no hook call threw.
AllAttemptsFailed == pc = "rejected" /\ outcome.by = "fn"

\* C1: with maxAttempts = k >= 1, an operation that fails on every attempt and
\* a hook that does not throw, the operation is invoked exactly k times, the
\* hook exactly k-1 times with the attempt numbers 1..k-1 in order, the wait
\* after failed attempt i < k is min(initialDelay * 2^(i-1), maxDelay), and no
\* wait follows attempt k.
C1_AlwaysFailingRuns ==
    (AllAttemptsFailed /\ maxAttempts >= 1) =>
        /\ fnCalls = maxAttempts
        /\ (onRetry # "none" =>
               /\ Len(hookLog) = maxAttempts - 1
               /\ \A i \in 1..Len(hookLog) : hookLog[i][1] = i)
        /\ Len(waitLog) = maxAttempts - 1
        /\ \A i \in 1..Len(waitLog) :
               waitLog[i] = (IF initialDelay * (2 ^ (i - 1)) <= maxDelay
                             THEN initialDelay * (2 ^ (i - 1)) ELSE maxDelay)
        /\ timers = 0
        /\ elapsed = maxAttempts - 1

\* Three failed attempts with a logging hook; the second wait is capped.
C1_Witness ==
    /\ AllAttemptsFailed
    /\ maxAttempts = 3 /\ onRetry = "log"
    /\ fnCalls = 3 /\ Len(hookLog) = 2
    /\ waitLog = <<8000, 10000>>

\* C2: when the operation fails on attempts 1..j-1 and succeeds on attempt
\* j <= k, withRetry resolves with the result of attempt j, the operation was
\* invoked exactly j times, and nothing follows the success: no hook call, no
\* wait, no pending timer.
C2_StopsAtFirstSuccess ==
    (outcome.kind = "resolved") =>
        /\ pc = "resolved"
        /\ outcome.value = attempt
        /\ attempt <= maxAttempts
        /\ fnCalls = attempt
        /\ inFlight = 0
        /\ Len(waitLog) = attempt - 1
        /\ (onRetry # "none" => Len(hookLog) = attempt - 1)
        /\ elapsed = attempt - 1
        /\ timers = 0
        /\ ~ENABLED Next

\* Success on the second of three attempts.
C2_Witness ==
    /\ pc = "resolved" /\ maxAttempts = 3
    /\ outcome.value = 2 /\ fnCalls = 2 /\ Len(waitLog) = 1

\* C3: when every one of the maxAttempts attempts fails, withRetry rejects
\* with exactly the error raised by the last attempt, not wrapped and not the
\* error of an earlier attempt.
C3_RejectsWithLastError ==
    (AllAttemptsFailed /\ maxAttempts >= 1) =>
        /\ outcome.kind = "rejected"
        /\ outcome.error \in OpFailures(maxAttempts)
        /\ outcome.error = lastError
        /\ outcome.error.raisedAt = fnCalls

\* Three failures; the first and the last attempt raised different errors.
C3_Witness ==
    /\ AllAttemptsFailed /\ maxAttempts = 3 /\ Len(hookLog) = 2
    /\ hookLog[1][2].name # outcome.error.name
    /\ outcome.error.raisedAt = 3

\* The hook call recorded last is one on which the hook throws: a hook that
\* raises its own error, or the generation call's hook on a failure that
\* shouldRetry does not accept.
LastHookCallThrows ==
    /\ Len(hookLog) > 0
    /\ \/ onRetry = "raise"
       \/ onRetry = "guard" /\ ~shouldRetry(Last(hookLog)[2])

\* C4: if the hook throws after failed attempt i < maxAttempts, withRetry
\* rejects at once with the error thrown by the hook, without the backoff wait
\* and without invoking the operation again; with the generation call's hook
\* a failure that is not retryable ends the call after that attempt although
\* attempts remain.
C4_HookThrowAborts ==
    LastHookCallThrows =>
        /\ pc = "rejected"
        /\ outcome.kind = "rejected"
        /\ outcome.error = (IF onRetry = "raise" THEN HookError ELSE Last(hookLog)[2])
        /\ Last(hookLog)[1] < maxAttempts
        /\ fnCalls = Last(hookLog)[1]
        /\ inFlight = 0
        /\ Len(waitLog) = Len(hookLog) - 1
        /\ timers = 0
        /\ ~ENABLED Next

\* The generation call's hook gives up on a 404 raised by the second of three
\* attempts, after a retryable first failure.
C4_Witness ==
    /\ pc = "rejected" /\ onRetry = "guard" /\ maxAttempts = 3
    /\ Len(hookLog) = 2 /\ fnCalls = 2 /\ Len(waitLog) = 1
    /\ Has(outcome.error, "status") /\ outcome.error.status = 404

\* C5: at most one invocation of the operation is in flight at any time, and
\* attempt i+1 is in flight only after attempt i failed, onRetry(i) returned
\* and the backoff wait for attempt i elapsed.
C5_AttemptsAreSequential ==
    /\ inFlight <= 1
    /\ (inFlight = 1) = (pc = "awaitFn")
    /\ pc = "awaitFn" =>
          /\ fnCalls = attempt
          /\ Len(waitLog) = attempt - 1
          /\ elapsed = attempt - 1
          /\ timers = 0
          /\ (onRetry # "none" => Len(hookLog) = attempt - 1)

\* The third attempt is in flight after two elapsed waits.
C5_Witness == pc = "awaitFn" /\ attempt = 3 /\ elapsed = 2 /\ inFlight = 1

(***************************************************************************)
(* Properties of shouldRetry, checked under SpecShouldRetry.               *)
(***************************************************************************)
Classified == Len(cVerdict) = 1
IsTimeout == Has(cErr, "name") /\ cErr.name \in {"AbortError", "TimeoutError"}
IsConnectionFailure ==
    /\ Has(cErr, "message")
    /\ \E i \in 1..Len(cErr.message) : cErr.message[i] \in {"fetch failed", "ECONNREFUSED"}
StatusIn(lo, hi) == Has(cErr, "status") /\ cErr.status >= lo /\ cErr.status <= hi

\* C6: shouldRetry returns true for a failure whose status is the rate-limit
\* status 429 and that is neither a timeout nor a connection failure.
C6_RateLimitIsRetried ==
    (Classified /\ StatusIn(429, 429) /\ ~IsTimeout /\ ~IsConnectionFailure) =>
        cVerdict[1] = TRUE

\* C7: shouldRetry is true for timeout/abort-named errors, for connection
\* failures, for status 503 and for every status >= 500; otherwise it is
\* false: for every status in 400..499 other than 429, and for a failure
\* that matches none of the rules.
C7_Classification ==
    Classified =>
        LET retryable == IsTimeout \/ IsConnectionFailure
                         \/ (Has(cErr, "status") /\ cErr.status >= 500)
            clientError == StatusIn(400, 499) /\ ~StatusIn(429, 429)
        IN /\ retryable => cVerdict[1] = TRUE
           /\ (~retryable /\ clientError) => cVerdict[1] = FALSE
           /\ (~retryable /\ ~clientError) => cVerdict[1] = FALSE

\* A bare 502 is classified as retryable.
C7_Witness ==
    /\ Classified /\ ~IsTimeout /\ ~IsConnectionFailure
    /\ StatusIn(502, 502) /\ cVerdict[1] = TRUE

(***************************************************************************)
(* Properties of truncateConversation, checked under SpecTruncate.         *)
(***************************************************************************)
Returned == tResult # None
InputTotal == getTotalTokenCount(tMessages, tMethod)
\* The summary message this call creates.
IsSummary(m) == m.role = "system" /\ m.id = <<"summary", tNow>>
SummaryCost == countMessageTokens(SummaryMessage(tMessages, tNow), tMethod)
\* q is a suffix of p
IsSuffix(q, p) == Len(q) <= Len(p) /\ q = SubSeq(p, Len(p) - Len(q) + 1, Len(p))

\* C8: under budget truncateConversation is a no-op: for every list with
\* totalTokens <= bufferThreshold it returns the same list (same messages,
\* same order, no summary) with wasTruncated = false, and applying it again
\* gives the same result.
C8_NoOpUnderBudget ==
    (Returned /\ InputTotal <= tBuffer) =>
        /\ tResult.wasTruncated = FALSE
        /\ tResult.messages = tMessages
        /\ truncateConversation(tResult.messages, tMaxTokens, tBuffer, tMethod, tNow)
              = tResult

\* A list of two messages or more that is under budget.
C8_Witness ==
    /\ Returned /\ Len(tMessages) >= 2 /\ InputTotal <= tBuffer
    /\ tResult.messages = tMessages

\* C9: when truncation triggers, the returned list is the summary message
\* followed by the kept messages, oldest to newest.
C9_SummaryComesFirst ==
    (Returned /\ tResult.wasTruncated) =>
        /\ Len(tResult.messages) >= 1
        /\ IsSummary(tResult.messages[1])
        /\ IsSuffix(Tail(tResult.messages), tMessages)

\* Token sum of the returned messages without / with the summary.
RECURSIVE KeptCost(_)
KeptCost(ms) ==
    IF Len(ms) = 0 THEN 0
    ELSE (IF IsSummary(Head(ms)) THEN 0 ELSE countMessageTokens(Head(ms), tMethod))
         + KeptCost(Tail(ms))
ReturnedCost == getTotalTokenCount(tResult.messages, tMethod)

WithinBudget ==
    /\ KeptCost(tResult.messages) <= tMaxTokens
    /\ (SummaryCost <= tMaxTokens => ReturnedCost <= tMaxTokens)

\* C10 as stated: for every list and every maxTokens, bufferThreshold, the
\* token sum of the returned messages without the summary never exceeds
\* maxTokens, and neither does the sum with the summary when the summary's
\* own cost is at most maxTokens.
C10_WithinBudgetAlways == Returned => WithinBudget

\* C10 amended: the same for every maxTokens >= 0 and every
\* bufferThreshold <= maxTokens.
C10_WithinBudget ==
    (Returned /\ tMaxTokens >= 0 /\ tBuffer <= tMaxTokens) => WithinBudget

\* Truncation that keeps some messages and drops others.
C10_Witness ==
    /\ Returned /\ tResult.wasTruncated
    /\ tMaxTokens >= 0 /\ tBuffer <= tMaxTokens
    /\ Len(tResult.messages) >= 2
    /\ Len(tResult.messages) <= Len(tMessages)
    /\ SummaryCost <= tMaxTokens

\* The newest message of the list handed in.
Newest == tMessages[Len(tMessages)]
Triggered == InputTotal > tBuffer
Contains(ms, m) == \E i \in 1..Len(ms) : ms[i] = m

\* C11 as stated: for every non-empty list on which truncation triggers, if
\* maxTokens is at least the token cost of the newest message, the newest
\* message is in the returned list.
C11_NewestKeptIfItFitsAlone ==
    (Returned /\ Len(tMessages) >= 1 /\ Triggered
       /\ tMaxTokens >= countMessageTokens(Newest, tMethod)) =>
        Contains(tResult.messages, Newest)

\* C11 amended: the same when maxTokens is at least the cost of the summary
\* message plus the cost of the newest message.
C11_NewestKeptIfItFitsWithSummary ==
    (Returned /\ Len(tMessages) >= 1 /\ Triggered
       /\ tMaxTokens >= SummaryCost + countMessageTokens(Newest, tMethod)) =>
        Contains(tResult.messages, Newest)

\* The newest message fits exactly beside the summary and is the only one
\* kept.
C11_Witness ==
    /\ Returned /\ Len(tMessages) >= 2 /\ Triggered
    /\ tMaxTokens = SummaryCost + countMessageTokens(Newest, tMethod)
    /\ Len(tResult.messages) = 2
    /\ Contains(tResult.messages, Newest)

\* C12: when truncation triggers and the summary message alone costs more
\* than maxTokens, the returned list holds the summary and no original
\* message, with wasTruncated = true.
C12_OversizedSummaryIsReturnedAlone ==
    (Returned /\ Triggered /\ SummaryCost > tMaxTokens) =>
        /\ tResult.wasTruncated = TRUE
        /\ tResult.messages = <<SummaryMessage(tMessages, tNow)>>

\* A message that would fit on its own is dropped beside an oversized
\* summary.
C12_Witness ==
    /\ Returned /\ Triggered /\ SummaryCost > tMaxTokens
    /\ Len(tMessages) >= 1
    /\ countMessageTokens(Newest, tMethod) <= tMaxTokens
    /\ Len(tResult.messages) = 1

\* countTokens(content) + 1000 * number of images + 4
ExpectedCost(m) ==
    countTokens(m.content, tMethod)
    + 1000 * (IF Has(m, "images") THEN Len(m.images) ELSE 0) + 4
RECURSIVE SumExpected(_, _)
SumExpected(ms, i) == IF i < 1 THEN 0 ELSE ExpectedCost(ms[i]) + SumExpected(ms, i - 1)

\* C13: getTotalTokenCount(L) is the sum over the messages of
\* countTokens(content) + 1000 * number of images + 4, so the total of a
\* concatenation is the sum of the totals; a single image-less message whose
\* content is estimated at 50 tokens gives 54 and is not truncated under
\* maxTokens = 1000, bufferThreshold = 900.
C13_TotalIsAdditive ==
    Returned =>
        /\ InputTotal = SumExpected(tMessages, Len(tMessages))
        /\ \A k \in 0..Len(tMessages) :
               getTotalTokenCount(SubSeq(tMessages, 1, k), tMethod)
               + getTotalTokenCount(SubSeq(tMessages, k + 1, Len(tMessages)), tMethod)
               = InputTotal
        /\ (Len(tMessages) = 1 /\ ~Has(tMessages[1], "images")
              /\ countTokens(tMessages[1].content, tMethod) = 50) =>
               /\ InputTotal = 54
               /\ (tMaxTokens = 1000 /\ tBuffer = 900) =>
                      (tResult.wasTruncated = FALSE /\ tResult.messages = tMessages)

\* The single 50-token message under 1000 / 900.
C13_Witness ==
    /\ Returned /\ Len(tMessages) = 1 /\ tMethod = "fallback"
    /\ countTokens(tMessages[1].content, tMethod) = 50
    /\ InputTotal = 54 /\ tMaxTokens = 1000 /\ tBuffer = 900
    /\ tResult.wasTruncated = FALSE

(***************************************************************************)
(* The kept messages are the longest suffix that fits (SpecTruncate).      *)
(***************************************************************************)
\* The messages of the returned list other than the summary, in their order.
KeptOriginals == SelectSeq(tResult.messages, LAMBDA m : ~IsSummary(m))
\* The cost of the j newest messages of the input.
SuffixCost(j) ==
    getTotalTokenCount(SubSeq(tMessages, Len(tMessages) - j + 1, Len(tMessages)),
                       tMethod)

\* C28: when truncation triggers, the returned list holds one summary and
\* the kept originals are a suffix of the input, namely the longest one
\* whose cost together with the summary's is at most maxTokens: the j-th
\* newest message is kept exactly when the summary and the j newest messages
\* fit.  For twenty messages of cost 100 with maxTokens 500 and
\* bufferThreshold 400 the result is the summary and the k newest messages
\* with summaryCost + 100 k <= 500 < summaryCost + 100 (k + 1), and
\* wasTruncated is true.
C28_KeptIsTheLongestFittingSuffix ==
    /\ (Returned /\ tResult.wasTruncated) =>
           /\ Len(tResult.messages) = Len(KeptOriginals) + 1
           /\ IsSuffix(KeptOriginals, tMessages)
           /\ \A j \in 1..Len(tMessages) :
                  (j <= Len(KeptOriginals)) <=> (SummaryCost + SuffixCost(j) <= tMaxTokens)
    /\ (Returned /\ tMessages = ScenarioB /\ tMaxTokens = 500 /\ tBuffer = 400) =>
           LET k == Len(KeptOriginals)
           IN /\ tResult.wasTruncated
              /\ \A i \in 1..20 : countMessageTokens(tMessages[i], tMethod) = 100
              /\ Len(tResult.messages) = k + 1
              /\ KeptOriginals = SubSeq(tMessages, 20 - k + 1, 20)
              /\ SummaryCost + 100 * k <= 500
              /\ 500 < SummaryCost + 100 * (k + 1)

\* The twenty messages were truncated to the summary and some, not all, of
\* the newest ones.
C28_Witness ==
    /\ Returned /\ tMessages = ScenarioB /\ tMaxTokens = 500 /\ tBuffer = 400
    /\ tResult.wasTruncated
    /\ Len(KeptOriginals) >= 1 /\ Len(KeptOriginals) < 20

\* An older message that would fit was not kept, because a newer one did not
\* fit.
C28_WitnessWalkStops ==
    /\ Returned /\ tResult.wasTruncated
    /\ \E i \in 1..Len(tMessages) :
           /\ i < Len(tMessages) - Len(KeptOriginals)
           /\ SummaryCost + SuffixCost(Len(KeptOriginals))
                 + countMessageTokens(tMessages[i], tMethod) <= tMaxTokens

(***************************************************************************)
(* Properties of POST /api/chat, checked under SpecChat.                   *)
(***************************************************************************)
\* C14: a message's token cost is fixed when it is appended: the cost the
\* truncation of a later call uses for a message equals the cost that was
\* counted (and stored as its tokenCount) when it was appended, whenever the
\* token counter finishes loading.
C14_CostIsFixedAtAppend ==
    \A t \in DOMAIN turns :
        \A i \in 1..Len(turns[t].seen) :
            LET m == turns[t].seen[i]
            IN Has(m, "tokenCount") =>
                   countMessageTokens(m, turns[t].seenMethod) = m.tokenCount

IsErrorEvent(ev) == Has(ev, "error") /\ Has(ev, "type") /\ ev.type = "ollama_error"
IsContentEvent(ev) == Has(ev, "content")
IsDoneMarker(ev) == Has(ev, "marker") /\ ev.marker = "[DONE]"
CountWhere(evs, kind) ==
    Cardinality({i \in 1..Len(evs) :
        CASE kind = "error" -> IsErrorEvent(evs[i])
          [] kind = "content" -> IsContentEvent(evs[i])
          [] kind = "done" -> IsDoneMarker(evs[i])})

FailedAtBackend(r) == r.pc = "failed" /\ r.failedAt \in {"probe", "model", "generation"}

\* C15: a call whose health probe, model check or generation step failed has
\* delivered exactly one error event followed by the done marker on a stream
\* that is closed, and has answered with the stream, not with an error
\* response.
C15_OneErrorEventThenDone ==
    \A t \in DOMAIN turns :
        FailedAtBackend(turns[t]) =>
            /\ Len(turns[t].events) = 2
            /\ IsErrorEvent(turns[t].events[1])
            /\ IsDoneMarker(turns[t].events[2])
            /\ turns[t].closed
            /\ turns[t].http = "stream"

\* The generation call failed on its second attempt.
C15_Witness ==
    \E t \in DOMAIN turns :
        /\ FailedAtBackend(turns[t])
        /\ turns[t].failedAt = "generation" /\ turns[t].tries = 2
        /\ CountWhere(turns[t].events, "error") = 1

\* C16, for the calls that have ended: the response carries the done marker
\* exactly once, as its last event, and is closed.
C16_EndsWithOneDoneMarker ==
    \A t \in DOMAIN turns :
        turns[t].pc \in Ended =>
            /\ Len(turns[t].events) >= 1
            /\ IsDoneMarker(Last(turns[t].events))
            /\ CountWhere(turns[t].events, "done") = 1
            /\ turns[t].closed

\* The probe answered with success and its body lists the configured model.
ProbeListsModel(r) ==
    /\ r.testResponse # Undefined
    /\ r.testResponse.ok
    /\ r.testResponse.json.parses
    /\ Has(r.testResponse.json.value, "models")
    /\ \E i \in 1..Len(r.testResponse.json.value.models) :
           r.testResponse.json.value.models[i].name = "qwen2.5vl:3b"

\* C17: a generation call is issued only after the probe answered with a
\* success response that lists the configured model, and the probe is
\* attempted at most twice; a call that failed at the probe or at the model
\* check has issued no generation call.
C17_GenerationOnlyAfterProbe ==
    \A t \in DOMAIN turns :
        /\ turns[t].probes <= 2
        /\ Len(turns[t].sent) > 0 => ProbeListsModel(turns[t])
        /\ (turns[t].pc = "failed" /\ turns[t].failedAt \in {"probe", "model"}) =>
               Len(turns[t].sent) = 0

\* A generation call after the probe's first attempt was rejected.
C17_Witness ==
    \E t \in DOMAIN turns :
        /\ Len(turns[t].sent) > 0 /\ turns[t].probes = 2
        /\ ProbeListsModel(turns[t])

\* The stored list of a chat id (without a store).
Stored(id) == IF chatSessions[id] = 0 THEN <<>> ELSE heap[chatSessions[id]]
\* The probe was rejected twice.
ProbeGaveUp(r) ==
    /\ r.pc = "failed" /\ r.failedAt = "probe"
    /\ r.probes = 2 /\ r.testResponse = Undefined

\* C18: after a call failed at the health probe, attempted twice, the
\* in-memory session of its chat id contains the call's user message and no
\* assistant message for it.
C18_FailedProbeKeepsUserMessage ==
    \A t \in DOMAIN turns :
        (~env.USE_DB /\ ProbeGaveUp(turns[t])) =>
            /\ Contains(Stored(turns[t].body.chatId), turns[t].newUserMessage)
            /\ turns[t].assistantMsg = Undefined

\* The generation response is a failure: a non-success status, or a payload
\* with an error field.
BadGeneration(r) ==
    /\ r.response # Undefined
    /\ \/ ~r.response.ok
       \/ /\ r.response.json.parses
          /\ Has(r.response.json.value, "error")
          /\ Len(r.response.json.value.error) > 0

\* The messages a chat id has in the session store or in the in-memory map.
Persisted(id) ==
    IF env.USE_DB THEN getSessionMessages(db, id) ELSE Stored(id)

\* C19: after a generation response with a non-success status or with an
\* error field in a 200 payload, no content event is emitted, no assistant
\* message is created or appended for the call, and the call ends with one
\* error event followed by the done marker.
C19_BadGenerationFailsTheTurn ==
    \A t \in DOMAIN turns :
        BadGeneration(turns[t]) =>
            /\ CountWhere(turns[t].events, "content") = 0
            /\ turns[t].assistantMsg = Undefined
            /\ \A i \in 1..Len(Persisted(turns[t].body.chatId)) :
                   LET m == Persisted(turns[t].body.chatId)[i]
                   IN m.role = "assistant" => m.timestamp <= turns[t].newUserMessage.timestamp
            /\ turns[t].pc \in {"genText", "genJson", "failed"}
            /\ turns[t].pc = "failed" =>
                   /\ Len(turns[t].events) = 2
                   /\ IsErrorEvent(turns[t].events[1])
                   /\ IsDoneMarker(turns[t].events[2])
                   /\ turns[t].closed

\* A 200 response with an error field has ended the call.
C19_Witness ==
    \E t \in DOMAIN turns :
        /\ BadGeneration(turns[t]) /\ turns[t].response.ok
        /\ turns[t].pc = "failed"
        /\ CountWhere(turns[t].events, "error") = 1

\* The request a body calls for: the fixed instruction, then the user turn
\* with the body's text and the payloads of its images.
IsExpectedRequest(request, body) ==
    /\ Len(request) = 2
    /\ request[1] = [role |-> "system", content |-> "expert AI tutor"]
    /\ request[2].role = "user"
    /\ request[2].content = body.userMessage
    /\ Has(request[2], "images") <=> Has(body, "images")
    /\ Has(body, "images") =>
           /\ Len(request[2].images) = Len(body.images)
           /\ \A i \in 1..Len(body.images) : request[2].images[i] = body.images[i][2]
    /\ DOMAIN request[2] \subseteq {"role", "content", "images"}

SameInput(b1, b2) ==
    /\ b1.userMessage = b2.userMessage
    /\ Has(b1, "images") <=> Has(b2, "images")
    /\ Has(b1, "images") => b1.images = b2.images

\* C20: every generation request holds exactly the fixed system instruction
\* and the current user turn, and two requests of calls with the same text
\* and images are identical whatever the session's history was.
C20_RequestIsIndependentOfHistory ==
    /\ \A e \in received : IsExpectedRequest(e.messages, e.body)
    /\ \A e1, e2 \in received : SameInput(e1.body, e2.body) => e1.messages = e2.messages
    /\ \A t \in DOMAIN turns : \A i \in 1..Len(turns[t].sent) :
           IsExpectedRequest(turns[t].sent[i], turns[t].body)

\* Two calls with the same text sent their requests from different
\* histories, one of them truncated.
C20_Witness ==
    \E e1, e2 \in received :
        /\ SameInput(e1.body, e2.body)
        /\ e1.historyLen # e2.historyLen
        /\ ~e1.truncated /\ e2.truncated
        /\ e1.messages = e2.messages

(***************************************************************************)
(* The stream and the stored list of a call that succeeded.                *)
(***************************************************************************)
\* The text of a generation response: message.content, empty when the
\* payload has none.
TextOf(response) ==
    IF Has(response.json.value, "message")
    THEN response.json.value.message.content
    ELSE <<>>

\* C21: the stream of a call that succeeded carries exactly one content
\* event, which holds the whole text of the generation response (the text of
\* the assistant message), followed by the done marker and nothing else; a
\* call that waits for the assistant message to be saved has sent that one
\* content event and nothing after it.
C21_OneContentEventThenDone ==
    \A t \in DOMAIN turns :
        LET r == turns[t]
        IN /\ r.pc = "committed" =>
                  /\ Len(r.events) = 2
                  /\ r.events[1] = [content |-> TextOf(r.response), done |-> TRUE]
                  /\ r.events[1].content = r.assistantMsg.content
                  /\ IsDoneMarker(r.events[2])
                  /\ CountWhere(r.events, "content") = 1
                  /\ r.closed
           /\ r.pc = "saveAssistant" =>
                  r.events = <<[content |-> TextOf(r.response), done |-> TRUE]>>

\* A call with a store has succeeded with a text of several words.
C21_Witness ==
    \E t \in DOMAIN turns :
        /\ turns[t].pc = "committed" /\ env.USE_DB
        /\ WordCount(turns[t].events[1].content) > 1
        /\ IsDoneMarker(Last(turns[t].events))

HasId(ms, m) == \E i \in 1..Len(ms) : ms[i].id = m.id

\* The history the next call on a chat id starts from (route.ts:111-118):
\* the session of the store, the mock session when the store is not
\* available, or the list of the in-memory map.
LoadedBy(id) ==
    IF env.USE_DB
    THEN IF isDbAvailable THEN getSessionMessages(db, id) ELSE <<>>
    ELSE Stored(id)

\* C22: after a call has succeeded whose user message was kept by the call's
\* own truncation, the history the next call on the same chat id starts from
\* holds the call's user message and its assistant message, with or without
\* a store, available or not.
C22_CommittedTurnIsInTheHistory ==
    \A t \in DOMAIN turns :
        (/\ turns[t].pc = "committed"
         /\ HasId(heap[turns[t].messages], turns[t].newUserMessage)) =>
            /\ HasId(LoadedBy(turns[t].body.chatId), turns[t].newUserMessage)
            /\ HasId(LoadedBy(turns[t].body.chatId), turns[t].assistantMsg)

\* C24: a call in which a query of the store was rejected has not answered
\* with status 500 and has no error event on its stream.
C24_StoreFailureNeverAbortsTheTurn ==
    \A t \in DOMAIN turns :
        turns[t].error = StoreError =>
            /\ turns[t].http # "500"
            /\ CountWhere(turns[t].events, "error") = 0

\* C30: no stream carries both a content event and an error event, and no
\* call has both appended its assistant message and emitted an error event.
C30_ContentAndErrorExclude ==
    \A t \in DOMAIN turns :
        /\ ~(CountWhere(turns[t].events, "content") > 0
             /\ CountWhere(turns[t].events, "error") > 0)
        /\ ~(/\ turns[t].assistantMsg # Undefined
             /\ HasId(Persisted(turns[t].body.chatId), turns[t].assistantMsg)
             /\ CountWhere(turns[t].events, "error") > 0)

(***************************************************************************)
(* Retries of the generation call.                                         *)
(***************************************************************************)
\* The last failure of the generation call is one shouldRetry classifies as
\* retryable: a response with its status, or what fetch rejected with.
RetryableFailure(r) ==
    IF r.response # Undefined
    THEN ~r.response.ok /\ shouldRetry([status |-> r.response.status])
    ELSE r.error # Undefined /\ shouldRetry(r.error)

\* C25: with more than one attempt configured, a call whose generation step
\* ended in a retryable failure (timeout, refused connection, status 5xx) has
\* used every attempt, and its one error event reports the failure of the
\* last attempt.
C25_RetryableFailuresUseEveryAttempt ==
    \A t \in DOMAIN turns :
        LET r == turns[t]
        IN (/\ env.OLLAMA_RETRY_ATTEMPTS > 1
            /\ r.pc = "failed" /\ r.failedAt = "generation"
            /\ RetryableFailure(r)) =>
               /\ r.tries = env.OLLAMA_RETRY_ATTEMPTS
               /\ CountWhere(r.events, "error") = 1
               /\ r.response = Undefined =>
                      r.events[1].error = getOllamaErrorMessage(r.error)

(***************************************************************************)
(* How the stored list of a chat id changes from step to step.             *)
(***************************************************************************)
IsSummaryMessage(m) == m.role = "system" /\ m.id[1] = "summary"
AppendedTo(old, new) ==
    Len(new) >= Len(old) /\ SubSeq(new, 1, Len(old)) = old
\* new is old with its first p messages replaced by one summary message,
\* and messages appended at the end.
PrefixReplaced(old, new) ==
    \E p \in 1..Len(old) :
        /\ Len(new) >= 1 + Len(old) - p
        /\ IsSummaryMessage(new[1])
        /\ SubSeq(new, 2, 1 + Len(old) - p) = SubSeq(old, p + 1, Len(old))
\* new is the last messages of old in their order, then one summary message,
\* then appended messages.
PrefixDroppedSummaryAfter(old, new) ==
    \E p \in 1..Len(old) :
        /\ Len(new) >= 1 + Len(old) - p
        /\ IsSummaryMessage(new[1 + Len(old) - p])
        /\ SubSeq(new, 1, Len(old) - p) = SubSeq(old, p + 1, Len(old))

\* C29: in every step the stored list of every chat id stays as it is, grows
\* at its end, or has a prefix replaced by one summary message (and grows at
\* its end); the messages after the replaced prefix stay, in their order.
C29_AppendOrPrefixReplaced ==
    [][\A id \in ChatIds :
           \/ AppendedTo(Persisted(id), Persisted(id)')
           \/ PrefixReplaced(Persisted(id), Persisted(id)')]_vars

\* What holds instead: the replaced prefix's summary stands after the kept
\* messages.
C29_SummaryAfterTheKeptMessages ==
    [][\A id \in ChatIds :
           \/ AppendedTo(Persisted(id), Persisted(id)')
           \/ PrefixReplaced(Persisted(id), Persisted(id)')
           \/ PrefixDroppedSummaryAfter(Persisted(id), Persisted(id)')]_vars

(***************************************************************************)
(* Properties of GET /api/chat, checked under SpecHealth.                  *)
(***************************************************************************)
IsSuccess(status) == status >= 200 /\ status < 300
Answered(r) == r.pc = "answered"
\* The backend answered the probe with a body that parses.
BackendAnswered(r) == r.testResponse # Undefined /\ r.testResponse.json.parses

C23_CancelledTurnEndsCleanly ==
    \A t \in DOMAIN turns :
        LET r == turns[t]
        IN (r.cancelled /\ r.pc \in Ended) =>
               /\ r.assistantMsg # Undefined =>
                      ~HasId(Persisted(r.body.chatId), r.assistantMsg)
               /\ CountWhere(r.events, "done") = 1

(***************************************************************************)
(* Calls on different chat ids, checked under SpecChatConcurrent.          *)
(***************************************************************************)
\* Another handler has a call in progress on another chat id.
OtherInProgress(t) ==
    \E u \in DOMAIN turns \ {t} :
        /\ turns[u].pc \notin {"idle"}
        /\ turns[u].body.chatId # turns[t].body.chatId

\* C26: while calls on different chat ids are in progress, no call is
\* refused the insert of its messages because of a row of another chat id,
\* and the stored list of a call that succeeded holds the call's own
\* messages only: without a store, exactly its user and its assistant
\* message.
C26_SessionsDoNotInterfere ==
    \A t \in DOMAIN turns :
        LET r == turns[t]
        IN /\ r.error # DuplicateKey
           /\ (r.pc = "committed" /\ OtherInProgress(t)) =>
                  /\ \A i \in 1..Len(Persisted(r.body.chatId)) :
                         Persisted(r.body.chatId)[i].id
                             \in {r.newUserMessage.id, r.assistantMsg.id}
                  /\ ~env.USE_DB =>
                         Persisted(r.body.chatId) = <<r.newUserMessage, r.assistantMsg>>

(***************************************************************************)
(* withRetry without attempts, checked under Spec.                         *)
(***************************************************************************)
\* C39: a call of withRetry with maxAttempts <= 0, or with the NaN that
\* parseInt gives for a text without a number, never invokes the operation,
\* starts no timer and calls no hook, and rejects with undefined.
C39_NoAttemptsRejectsWithUndefined ==
    (pc # "idle" /\ (IsNaN(maxAttempts) \/ maxAttempts <= 0)) =>
        /\ fnCalls = 0 /\ inFlight = 0
        /\ hookLog = <<>> /\ waitLog = <<>>
        /\ pc \in {"loop", "rejected"}
        /\ pc = "rejected" =>
               /\ outcome.kind = "rejected"
               /\ outcome.error = Undefined

\* A call with a maxAttempts that is not a number was rejected.
C39_Witness ==
    /\ pc = "rejected" /\ IsNaN(maxAttempts)
    /\ fnCalls = 0 /\ outcome.error = Undefined

(***************************************************************************)
(* Truncation of a list that fits, checked under SpecTruncate.             *)
(***************************************************************************)
EverythingFits == SummaryCost + InputTotal <= tMaxTokens

\* C38: when the list exceeds bufferThreshold although the summary and all
\* its messages fit into maxTokens, truncateConversation returns every
\* original message, in order, followed by the summary, with wasTruncated
\* true, and the returned list costs more tokens than the list handed in.
C38_FittingListGrowsByTheSummary ==
    (Returned /\ Triggered /\ EverythingFits) =>
        /\ tResult.wasTruncated
        /\ Len(tResult.messages) = Len(tMessages) + 1
        /\ KeptOriginals = tMessages
        /\ IsSummary(tResult.messages[Len(tResult.messages)])
        /\ ReturnedCost = InputTotal + SummaryCost
        /\ ReturnedCost > InputTotal

\* A list of several messages over the threshold that fits with its summary.
C38_Witness ==
    /\ Returned /\ Triggered /\ EverythingFits
    /\ Len(tMessages) >= 2
    /\ Len(tResult.messages) = Len(tMessages) + 1

(***************************************************************************)
(* Size of the summary, checked under SpecTruncate.                        *)
(***************************************************************************)
\* The longest line an excerpt gives: "- Assistant explained: ", 150
\* characters of content, "..." and the newline.
ExcerptLine == Chars(AssistantLinePrefix) + ASSISTANT_EXCERPT + Chars(Ellipsis) + 1
\* The header and, for each of the three summarized messages, two lines of
\* that size.
SummarySizeBound == Chars(SummaryHeader) + SUMMARY_HEAD * (2 * ExcerptLine)
SummarySize == Chars(SummaryMessage(tMessages, tNow).content)

\* C32: the summary that truncateConversation creates is no longer than a
\* constant, whatever the length of the summarized messages' content,
\* headings and page-reference lists.
C32_SummarySizeIsBounded ==
    (Returned /\ tResult.wasTruncated) => SummarySize <= SummarySizeBound

\* The part of C32 that the code keeps: messages without headings and
\* without page references give a summary within the bound.
PlainMessage(m) ==
    /\ ~Has(m, "pageReferences")
    /\ m.role = "assistant" => SelectSeq(NonBlankLines(m.content), IsHeading) = <<>>
C32_PlainSummaryIsBounded ==
    (Returned /\ tResult.wasTruncated
        /\ \A i \in 1..Len(tMessages) : PlainMessage(tMessages[i]))
    => SummarySize <= SummarySizeBound

\* The summary holds every heading it names and every page number in full.
C32_SummaryHoldsWholeHeadingsAndPages ==
    (Returned /\ tResult.wasTruncated) =>
        \A i \in 1..Min(SUMMARY_HEAD, Len(tMessages)) :
            LET m == tMessages[i]
                headings == SelectSeq(NonBlankLines(m.content), IsHeading)
            IN /\ (m.role = "assistant" /\ Len(headings) > 0) =>
                      SummarySize >= Chars(StripHeading(headings[1]))
               /\ (m.role = "user" /\ Has(m, "pageReferences")) =>
                      SummarySize >= Len(m.pageReferences)

(***************************************************************************)
(* Order of the append and the backend calls, checked under SpecChat.      *)
(***************************************************************************)
\* The handler has issued a call to the model backend: generateEmbedding for
\* a page (route.ts:151) or the first probe (route.ts:186).
BackendCalled(r) == r.page > 0 \/ r.probes > 0

\* C31: a handler that has issued a call to the model backend (embedding,
\* probe or generation) has constructed its user message before and pushed
\* it onto its message list as the last element.
C31_UserMessageAppendedBeforeBackend ==
    \A t \in DOMAIN turns :
        LET r == turns[t]
        IN BackendCalled(r) =>
               /\ r.newUserMessage # Undefined
               /\ Len(r.seen) >= 1
               /\ r.seen[Len(r.seen)] = r.newUserMessage

\* C31 as a property of steps: the step that issues the first backend call
\* of a turn leaves the turn's user message in the heap.
C31_FirstBackendCallFollowsTheAppend ==
    [][\A t \in DOMAIN turns :
          (~BackendCalled(turns[t]) /\ BackendCalled(turns'[t])) =>
              \E ref \in 1..Len(heap') : HasId(heap'[ref], turns'[t].newUserMessage)]_vars

\* A handler with a store that is generating an embedding, and one without a
\* store at its first probe, each with the user message pushed.
C31_Witness ==
    \E t \in DOMAIN turns :
        /\ turns[t].pc = "embed"
        /\ turns[t].probes = 0
        /\ turns[t].seen[Len(turns[t].seen)] = turns[t].newUserMessage
C31_WitnessProbe ==
    \E t \in DOMAIN turns :
        /\ turns[t].pc = "probe" /\ ~env.USE_DB
        /\ Len(turns[t].seen) >= 2

(***************************************************************************)
(* Message ids.                                                            *)
(***************************************************************************)
UniqueIds(ms) == \A i, j \in 1..Len(ms) : ms[i].id = ms[j].id => i = j
StoredMessages == [i \in 1..Len(db.messages) |-> db.messages[i].message]

\* C33: no two messages of a message list (user, assistant or summary) share
\* an id, and no two rows of the store's messages table share an id.
C33_MessageIdsAreUnique ==
    /\ \A ref \in 1..Len(heap) : UniqueIds(heap[ref])
    /\ UniqueIds(StoredMessages)

\* The part of C33 about the store: the primary key keeps the rows' ids
\* distinct.
C33_StoredIdsAreUnique == UniqueIds(StoredMessages)

(***************************************************************************)
(* Properties of GET /api/ollama/health, checked under SpecOllamaHealth.   *)
(***************************************************************************)
AnsweredChecks == {t \in DOMAIN turns : turns[t].pc = "answered"}

\* C40: the answer has status 200 exactly when the connection check and the
\* model check are both true and 503 otherwise; the model check is true only
\* if the connection check is; a generation request is issued only when the
\* model is available; and the status does not depend on the outcome of the
\* test generation.
C40_StatusFollowsConnectionAndModel ==
    \A t \in DOMAIN turns :
        LET r == turns[t]
            checks == r.results.checks
        IN r.pc # "idle" =>
            /\ checks.modelAvailable => checks.connection
            /\ r.generations > 0 => checks.modelAvailable
            /\ checks.testGeneration => checks.modelAvailable
            /\ r.pc = "answered" =>
                   /\ r.answer.status \in {HTTP_OK, HTTP_SERVICE_UNAVAILABLE}
                   /\ r.answer.status = HTTP_OK <=>
                          (checks.connection /\ checks.modelAvailable)
                   /\ r.answer.body.checks = checks

\* C40 as a property of steps: the step that ends a test generation, however
\* it ends, answers 200.
C40_TestGenerationNeverChangesTheStatus ==
    [][\A t \in DOMAIN turns :
          (turns[t].pc \in {"generate", "generateJson"} /\ turns'[t].pc = "answered")
              => turns'[t].answer.status = HTTP_OK]_vars

\* An answer of 200 although the test generation failed.
C40_Witness ==
    \E t \in AnsweredChecks :
        /\ turns[t].answer.status = HTTP_OK
        /\ turns[t].generations > 0
        /\ ~turns[t].results.checks.testGeneration
\* An answer of 503 with the connection check true.
C40_WitnessConnectedWithoutModel ==
    \E t \in AnsweredChecks :
        /\ turns[t].answer.status = HTTP_SERVICE_UNAVAILABLE
        /\ turns[t].results.checks.connection
        /\ turns[t].generations = 0

(***************************************************************************)
(* Properties of handleAnalyze, checked under SpecClient (two pages whose  *)
(* calls overlap) and SpecClientStreams (one call, every stream).          *)
(***************************************************************************)
Calls == DOMAIN analyzeCalls
Accepted(h) == analyzeCalls[h].pc # "rejected"
\* The messages of the call's page that the call h appended.
MessagesOf(h) ==
    SelectSeq(tabs[analyzeCalls[h].tab].messages, LAMBDA m : m.call = h)
RepliesOf(h) ==
    SelectSeq(MessagesOf(h), LAMBDA m : m.role = "assistant" /\ m.id[Len(m.id)] = "response")
NoticesOf(h) ==
    SelectSeq(MessagesOf(h), LAMBDA m : m.role = "assistant" /\ m.id[Len(m.id)] = "error")

\* An accepted call of the same page less than a second before the call h.
OwnRecentSubmission(h) ==
    \E g \in 1..(h - 1) :
        /\ Accepted(g)
        /\ analyzeCalls[g].tab = analyzeCalls[h].tab
        /\ analyzeCalls[h].at - analyzeCalls[g].at < RATE_LIMIT_MS

\* C34: a page accepts at most one submission per second, and a submission
\* is rejected only because of an accepted submission of the same page less
\* than 1000 ms before it, never because of another page's.
C34_OneSubmissionPerSecondPerSession ==
    \A h \in Calls :
        /\ Accepted(h) => ~OwnRecentSubmission(h)
        /\ ~Accepted(h) => OwnRecentSubmission(h)

\* The part of C34 about what a rejected call leaves alone: a rejected call
\* adds no message, sends no request and changes neither isStreaming nor
\* analyzedPages nor localStorage.
C34_RejectedCallChangesNothing ==
    [][(Len(analyzeCalls') = Len(analyzeCalls) + 1
            /\ analyzeCalls'[Len(analyzeCalls')].pc = "rejected")
        => (tabs' = tabs /\ requests' = requests /\ localStorage' = localStorage)]_vars

\* The limit itself: a call is rejected exactly when an accepted call of any
\* page was made less than 1000 ms before it.
C34_RejectedWithinASecondOfAnyPage ==
    \A h \in Calls :
        ~Accepted(h) <=>
            \E g \in 1..(h - 1) :
                Accepted(g) /\ analyzeCalls[h].at - analyzeCalls[g].at < RATE_LIMIT_MS

(***************************************************************************)
(* Error events and the assembled text, checked under SpecClientStreams.   *)
(***************************************************************************)
ErrorEventsOf(events) == SelectSeq(events, LAMBDA ev : Has(ev, "error"))
\* What the server's message reports.
ServerErrorKind(message) ==
    IF message = <<"Cannot connect to Ollama", "ollama serve">> THEN "connection"
    ELSE IF message = <<"Request to Ollama timed out">> THEN "timeout"
    ELSE IF message = <<"Model", "not found", "ollama pull">> THEN "model"
    ELSE "protocol"
\* The notice that matches: start the backend, pull the model, retry later,
\* or, for a protocol error, any notice.
Matches(category, kind) ==
    IF kind = "protocol" THEN TRUE ELSE category = kind

\* The call read its stream to the end or to the error it threw; the
\* connection did not break.
Finished(h) ==
    LET c == analyzeCalls[h]
    IN /\ c.pc = "done" /\ c.stream # <<>>
       /\ ~(Has(c.error, "name") /\ c.error.name = "TypeError")

\* C35: a call whose stream held an error event ends with an error notice
\* of the matching category and without a reply, when every chunk ended at
\* the end of a line.
C35_ErrorEventGivesMatchingNotice ==
    \A h \in Calls :
        LET c == analyzeCalls[h]
            errors == ErrorEventsOf(c.stream)
        IN (Finished(h) /\ ~c.midLine /\ Len(errors) > 0) =>
               /\ Len(NoticesOf(h)) = 1
               /\ Matches(NoticesOf(h)[1].content.category,
                          ServerErrorKind(errors[1].error))
               /\ Len(RepliesOf(h)) = 0

\* The part of C35 the client keeps: an error event whose message names
\* Ollama or says "Cannot connect" gives its notice and no reply.
C35_RethrownErrorGivesNotice ==
    \A h \in Calls :
        LET c == analyzeCalls[h]
            errors == ErrorEventsOf(c.stream)
        IN (Finished(h) /\ ~c.midLine /\ Len(errors) > 0
              /\ Rethrown(errors[1].error)) =>
               /\ Len(NoticesOf(h)) = 1
               /\ Matches(NoticesOf(h)[1].content.category,
                          ServerErrorKind(errors[1].error))
               /\ Len(RepliesOf(h)) = 0

\* The content fields of the events, concatenated in order.
RECURSIVE ContentsOf(_)
ContentsOf(events) ==
    IF Len(events) = 0 THEN <<>>
    ELSE (IF Has(Head(events), "content") THEN Head(events).content ELSE <<>>)
         \o ContentsOf(Tail(events))

\* C36: the reply a call appends holds the concatenation, in order, of the
\* content fields of all events of its stream, however the stream was cut
\* into chunks.
C36_ReplyIsTheConcatenation ==
    \A h \in Calls :
        (Finished(h) /\ Len(RepliesOf(h)) = 1) =>
            RepliesOf(h)[1].content = ContentsOf(analyzeCalls[h].stream)

\* The part of C36 the client keeps: the same when every chunk ended at the
\* end of a line.
C36_WholeLinesGiveTheConcatenation ==
    \A h \in Calls :
        (Finished(h) /\ Len(RepliesOf(h)) = 1 /\ ~analyzeCalls[h].midLine) =>
            RepliesOf(h)[1].content = ContentsOf(analyzeCalls[h].stream)

(***************************************************************************)
(* The end of a call, checked under SpecClientFair.                        *)
(***************************************************************************)
\* The call h has appended its user message and, after it, exactly one
\* assistant message.
OneAssistantAfterUser(h) ==
    LET ms == MessagesOf(h)
    IN /\ Len(ms) = 2
       /\ ms[1].role = "user"
       /\ ms[2].role = "assistant"
CallsOfTab(t) == {h \in Calls : analyzeCalls[h].tab = t /\ Accepted(h)}

\* C37 for the runs that have ended: an accepted call that has returned has
\* appended exactly one assistant message after its user message, a call in
\* progress has appended none, and on a page without a call in progress
\* isStreaming is false and streamingMessage is empty.
C37_EndedCallLeftOneAssistantMessage ==
    /\ \A h \in Calls :
          /\ analyzeCalls[h].pc = "done" => OneAssistantAfterUser(h)
          /\ analyzeCalls[h].pc \in {"fetch", "read"} =>
                 (Len(MessagesOf(h)) = 1 /\ MessagesOf(h)[1].role = "user")
          /\ analyzeCalls[h].pc = "rejected" => Len(MessagesOf(h)) = 0
    /\ \A t \in ClientTabs :
          (CallsOfTab(t) \cap InProgress = {}) =>
              (~tabs[t].isStreaming /\ tabs[t].streamingMessage = <<>>)

\* C37: every accepted call returns, with exactly one assistant message
\* appended after its user message, and its page's isStreaming returns to
\* false with streamingMessage cleared.
C37_EveryCallEndsWithOneAssistantMessage ==
    /\ []C37_EndedCallLeftOneAssistantMessage
    /\ \A h \in 1..MaxSubmissions :
          (h \in Calls /\ Accepted(h)) ~> (h \in Calls /\ analyzeCalls[h].pc = "done")
    /\ \A t \in ClientTabs :
          tabs[t].isStreaming ~> (~tabs[t].isStreaming /\ tabs[t].streamingMessage = <<>>)

\* Two calls of one page have ended, one with a reply and one with a notice.
C37_Witness ==
    \E g, h \in Calls :
        /\ g # h /\ analyzeCalls[g].tab = analyzeCalls[h].tab
        /\ analyzeCalls[g].pc = "done" /\ analyzeCalls[h].pc = "done"
        /\ Len(RepliesOf(g)) = 1 /\ Len(NoticesOf(h)) = 1
        /\ ~tabs[analyzeCalls[g].tab].isStreaming

=============================================================================
